---- MODULE Spec2Model ----
(***************************************************************************)
(* Model of the concurrency-demo pages.  Every page is a React component   *)
(* whose state is a bag of useState fields, one or two interval refs and   *)
(* the closures of the interval callbacks.  One variable holds the state   *)
(* of each page; `page' is the page that is mounted.  An event handler or  *)
(* timer callback is one action: its setState calls are applied in call   *)
(* order, an updater function reads the latest value of its own field,     *)
(* and every other name it reads is the value captured by its closure.     *)
(***************************************************************************)
EXTENDS Integers, Sequences, FiniteSets, TLC

VARIABLES page, deadlock, memord, race, locks, async, starv, sem, pool,
          prodcons, rw

vars == <<page, deadlock, memord, race, locks, async, starv, sem, pool,
          prodcons, rw>>

(* For each page, the variables of the other pages.                        *)
others_deadlock == <<page, memord, race, locks, async, starv, sem, pool, prodcons, rw>>

others_memord == <<page, deadlock, race, locks, async, starv, sem, pool, prodcons, rw>>

others_race == <<page, deadlock, memord, locks, async, starv, sem, pool, prodcons, rw>>

others_locks == <<page, deadlock, memord, race, async, starv, sem, pool, prodcons, rw>>

others_async == <<page, deadlock, memord, race, locks, starv, sem, pool, prodcons, rw>>

others_starv == <<page, deadlock, memord, race, locks, async, sem, pool, prodcons, rw>>

others_sem == <<page, deadlock, memord, race, locks, async, starv, pool, prodcons, rw>>

others_pool == <<page, deadlock, memord, race, locks, async, starv, sem, prodcons, rw>>

others_prodcons == <<page, deadlock, memord, race, locks, async, starv, sem, pool, rw>>

others_rw == <<page, deadlock, memord, race, locks, async, starv, sem, pool, prodcons>>

(* null of a string-valued field                                           *)
Null == "null"

(* null of a field that holds a thread id (ids start at 1)                 *)
NoThread == 0

(* null of a field that holds a counter value (values start at 0)          *)
NoValue == -1

Min(a, b) == IF a < b THEN a ELSE b

Max(a, b) == IF a > b THEN a ELSE b

(* ------------------------------ timers -------------------------------- *)
(* The live intervals of one ref: a function from handle to the closure    *)
(* record of the callback.  A ref holds a handle, or NoHandle for null.    *)

NoHandle == 0

NoTimers == <<>>

(* setInterval returns a handle that no live interval and no ref holds.    *)
FreshHandle(timers, refs) ==
    CHOOSE h \in 1..(Cardinality(DOMAIN timers) + Cardinality(refs) + 1) :
        /\ h \notin DOMAIN timers
        /\ h \notin refs
        /\ \A g \in 1..(h - 1) : g \in DOMAIN timers \/ g \in refs

setInterval(timers, h, closure) == (h :> closure) @@ timers

clearInterval(timers, h) == [g \in (DOMAIN timers) \ {h} |-> timers[g]]

(* Array.prototype.slice(-n): the last n elements.                         *)
SliceLast(s, n) == SubSeq(s, Max(1, Len(s) - n + 1), Len(s))

(* addLog without the slice                                                *)
AppendLogKeepingAll(logs, n, message) == Append(logs, message)

(* setLogs((prev) => [...prev.slice(-n), message])                         *)
AppendLog(logs, n, message) == Append(SliceLast(logs, n), message)

(* ============================== deadlock =============================== *)

DeadlockLogKeep == 8

Deadlock_initThreads ==
    [i \in 1..2 |-> [holdsLock |-> Null, wantsLock |-> Null, status |-> "idle"]]

Deadlock_initLocks == [l \in {"lock1", "lock2"} |-> NoThread]

Deadlock_addLog(d, message) ==
    [d EXCEPT !.logs = AppendLog(d.logs, DeadlockLogKeep, message)]

Deadlock_state0 ==
    [showExplanation |-> TRUE, isRunning |-> FALSE, isDeadlocked |-> FALSE,
     step |-> 0, logs |-> <<>>, threads |-> Deadlock_initThreads,
     locks |-> Deadlock_initLocks, intervalRef |-> NoHandle, timers |-> NoTimers]

Deadlock_resetState(d) ==
    [d EXCEPT !.timers = IF d.intervalRef # NoHandle
                         THEN clearInterval(d.timers, d.intervalRef)
                         ELSE d.timers,
              !.isRunning = FALSE, !.isDeadlocked = FALSE, !.step = 0,
              !.logs = <<>>, !.threads = Deadlock_initThreads,
              !.locks = Deadlock_initLocks]

Deadlock_stepCount == 7

(* steps[k - 1]() of runDeadlockScenario, k in 1..7                        *)
Deadlock_steps(k, d) ==
    CASE k = 1 ->
           [Deadlock_addLog(d, "Thread A: Acquiring Lock 1...")
              EXCEPT !.threads[1].wantsLock = "lock1", !.threads[1].status = "waiting"]
      [] k = 2 ->
           [Deadlock_addLog(d, "Thread A: Acquired Lock 1")
              EXCEPT !.threads[1].holdsLock = "lock1", !.threads[1].wantsLock = Null,
                     !.threads[1].status = "acquired", !.locks["lock1"] = 1]
      [] k = 3 ->
           [Deadlock_addLog(d, "Thread B: Acquiring Lock 2...")
              EXCEPT !.threads[2].wantsLock = "lock2", !.threads[2].status = "waiting"]
      [] k = 4 ->
           [Deadlock_addLog(d, "Thread B: Acquired Lock 2")
              EXCEPT !.threads[2].holdsLock = "lock2", !.threads[2].wantsLock = Null,
                     !.threads[2].status = "acquired", !.locks["lock2"] = 2]
      [] k = 5 ->
           [Deadlock_addLog(d, "Thread A: Now I need Lock 2...")
              EXCEPT !.threads[1].wantsLock = "lock2", !.threads[1].status = "waiting"]
      [] k = 6 ->
           [Deadlock_addLog(d, "Thread B: Now I need Lock 1...")
              EXCEPT !.threads[2].wantsLock = "lock1", !.threads[2].status = "waiting"]
      [] OTHER ->
           [Deadlock_addLog(d, "DEADLOCK DETECTED!")
              EXCEPT !.isDeadlocked = TRUE,
                     !.threads = [i \in 1..2 |-> [d.threads[i] EXCEPT !.status = "deadlocked"]],
                     !.isRunning = FALSE]

(* Deadlock_tickState with an off-by-one in its bound test                  *)
Deadlock_tickStateOffByOne(d, h) ==
    LET currentStep == d.timers[h].currentStep IN
    IF currentStep <= Deadlock_stepCount
    THEN [Deadlock_steps(currentStep + 1, d)
            EXCEPT !.step = currentStep + 1,
                   !.timers[h].currentStep = currentStep + 1]
    ELSE IF d.intervalRef # NoHandle
         THEN [d EXCEPT !.timers = clearInterval(d.timers, d.intervalRef)]
         ELSE d

(* The interval callback of runDeadlockScenario, for the live interval h.  *)
Deadlock_tickState(d, h) ==
    LET currentStep == d.timers[h].currentStep IN
    IF currentStep < Deadlock_stepCount
    THEN [Deadlock_steps(currentStep + 1, d)
            EXCEPT !.step = currentStep + 1,
                   !.timers[h].currentStep = currentStep + 1]
    ELSE IF d.intervalRef # NoHandle
         THEN [d EXCEPT !.timers = clearInterval(d.timers, d.intervalRef)]
         ELSE d

Deadlock_runState(d) ==
    LET r == Deadlock_resetState(d)
        h == FreshHandle(r.timers, {r.intervalRef})
    IN [r EXCEPT !.isRunning = TRUE,
                 !.timers = setInterval(r.timers, h, [currentStep |-> 0]),
                 !.intervalRef = h]

(* The Create Deadlock button is disabled while isRunning.                 *)
Deadlock_canRun(d) == ~d.isRunning

Deadlock_runDeadlockScenario ==
    /\ page = "deadlock"
    /\ Deadlock_canRun(deadlock)
    /\ deadlock' = Deadlock_runState(deadlock)
    /\ UNCHANGED others_deadlock

Deadlock_reset ==
    /\ page = "deadlock"
    /\ deadlock' = Deadlock_resetState(deadlock)
    /\ UNCHANGED others_deadlock

Deadlock_tick ==
    /\ page = "deadlock"
    /\ \E h \in DOMAIN deadlock.timers :
         deadlock' = Deadlock_tickState(deadlock, h)
    /\ UNCHANGED others_deadlock

Deadlock_toggleExplanation ==
    /\ page = "deadlock"
    /\ deadlock' = [deadlock EXCEPT !.showExplanation = ~deadlock.showExplanation]
    /\ UNCHANGED others_deadlock

(* =========================== memory-ordering =========================== *)

MemoryLogKeep == 12

Memory_initCache == [value |-> 0, dirty |-> FALSE, version |-> 0]

Memory_state0 ==
    [isRunning |-> FALSE, step |-> 0, mainMemory |-> [data |-> 0, ready |-> FALSE],
     core1Cache |-> Memory_initCache, core2Cache |-> Memory_initCache,
     core1Action |-> "", core2Action |-> "", logs |-> <<>>, scenario |-> "broken",
     result |-> Null, intervalRef |-> NoHandle, timers |-> NoTimers]

Memory_addLog(m, message) ==
    [m EXCEPT !.logs = AppendLog(m.logs, MemoryLogKeep, message)]

Memory_resetState(m) ==
    [m EXCEPT !.timers = IF m.intervalRef # NoHandle
                         THEN clearInterval(m.timers, m.intervalRef)
                         ELSE m.timers,
              !.isRunning = FALSE, !.step = 0,
              !.mainMemory = [data |-> 0, ready |-> FALSE],
              !.core1Cache = Memory_initCache, !.core2Cache = Memory_initCache,
              !.core1Action = "", !.core2Action = "", !.logs = <<>>,
              !.result = Null]

Memory_stepCount == 5

(* steps[k - 1]() of runBrokenScenario                                     *)
Memory_brokenSteps(k, m) ==
    CASE k = 1 ->
           [Memory_addLog(m, "[Core 1] Write data=42 to local cache")
              EXCEPT !.core1Action = "Writing data=42 to cache",
                     !.core1Cache = [value |-> 42, dirty |-> TRUE, version |-> 1]]
      [] k = 2 ->
           [Memory_addLog(Memory_addLog(m, "[Core 1] Write ready=true (CPU reordered!)"),
                          "CPU optimized by reordering writes!")
              EXCEPT !.core1Action = "Writing ready=true",
                     !.mainMemory.ready = TRUE]
      [] k = 3 ->
           [Memory_addLog(m, "[Core 2] Read ready=true from memory")
              EXCEPT !.core2Action = "Checking ready flag..."]
      [] k = 4 ->
           [Memory_addLog(Memory_addLog(m, "[Core 2] Read data=0 from memory (STALE!)"),
                          "RACE CONDITION: Core 2 saw ready=true but data=0!")
              EXCEPT !.core2Action = "Reading data...",
                     !.core2Cache = [value |-> 0, dirty |-> FALSE, version |-> 0],
                     !.result = "failure"]
      [] OTHER ->
           [Memory_addLog(m, "[Memory] Core 1's data=42 finally visible... too late!")
              EXCEPT !.core1Action = "Cache flush",
                     !.mainMemory = [data |-> 42, ready |-> TRUE],
                     !.isRunning = FALSE]

(* steps[k - 1]() of runFixedScenario                                      *)
Memory_fixedSteps(k, m) ==
    CASE k = 1 ->
           [Memory_addLog(m, "[Core 1] Write data=42 to local cache")
              EXCEPT !.core1Action = "Writing data=42",
                     !.core1Cache = [value |-> 42, dirty |-> TRUE, version |-> 1]]
      [] k = 2 ->
           [Memory_addLog(Memory_addLog(m, "[Core 1] RELEASE barrier"),
                          "[Memory] data=42 now visible to all cores")
              EXCEPT !.core1Action = "RELEASE BARRIER",
                     !.mainMemory.data = 42]
      [] k = 3 ->
           [Memory_addLog(m, "[Core 1] Write ready=true (AFTER barrier)")
              EXCEPT !.core1Action = "Writing ready=true",
                     !.mainMemory.ready = TRUE]
      [] k = 4 ->
           [Memory_addLog(Memory_addLog(m, "[Core 2] ACQUIRE barrier"),
                          "[Core 2] Read ready=true")
              EXCEPT !.core2Action = "ACQUIRE + check ready"]
      [] OTHER ->
           [Memory_addLog(Memory_addLog(m, "[Core 2] Read data=42"),
                          "SUCCESS: Acquire-Release guarantees order!")
              EXCEPT !.core2Action = "Reading data...",
                     !.core2Cache = [value |-> 42, dirty |-> FALSE, version |-> 1],
                     !.result = "success",
                     !.isRunning = FALSE]

(* Memory_tickState clearing the interval in the tick that executes the    *)
(* last step, instead of one tick later                                    *)
Memory_tickStateClearingOnLastStep(m, h) ==
    LET c == m.timers[h]
        n == [(IF c.script = "broken"
               THEN Memory_brokenSteps(c.currentStep + 1, m)
               ELSE Memory_fixedSteps(c.currentStep + 1, m))
                EXCEPT !.step = c.currentStep + 1,
                       !.timers[h].currentStep = c.currentStep + 1]
    IN IF c.currentStep + 1 < Memory_stepCount
       THEN n
       ELSE [n EXCEPT !.timers = clearInterval(n.timers, h)]

(* The interval callback of runBrokenScenario / runFixedScenario.  The     *)
(* closure holds its step list (script) and its currentStep.               *)
Memory_tickState(m, h) ==
    LET c == m.timers[h] IN
    IF c.currentStep < Memory_stepCount
    THEN [(IF c.script = "broken"
           THEN Memory_brokenSteps(c.currentStep + 1, m)
           ELSE Memory_fixedSteps(c.currentStep + 1, m))
            EXCEPT !.step = c.currentStep + 1,
                   !.timers[h].currentStep = c.currentStep + 1]
    ELSE IF m.intervalRef # NoHandle
         THEN [m EXCEPT !.timers = clearInterval(m.timers, m.intervalRef)]
         ELSE m

Memory_runState(m, script) ==
    LET r == Memory_resetState(m)
        h == FreshHandle(r.timers, {r.intervalRef})
    IN [r EXCEPT !.scenario = script, !.isRunning = TRUE,
                 !.timers = setInterval(r.timers, h,
                                        [script |-> script, currentStep |-> 0]),
                 !.intervalRef = h]

(* Run Broken and Run Fixed are disabled while isRunning.                  *)
Memory_canRun(m) == ~m.isRunning

Memory_runBrokenScenario ==
    /\ page = "memory-ordering"
    /\ Memory_canRun(memord)
    /\ memord' = Memory_runState(memord, "broken")
    /\ UNCHANGED others_memord

Memory_runFixedScenario ==
    /\ page = "memory-ordering"
    /\ Memory_canRun(memord)
    /\ memord' = Memory_runState(memord, "fixed")
    /\ UNCHANGED others_memord

Memory_reset ==
    /\ page = "memory-ordering"
    /\ memord' = Memory_resetState(memord)
    /\ UNCHANGED others_memord

Memory_tick ==
    /\ page = "memory-ordering"
    /\ \E h \in DOMAIN memord.timers :
         memord' = Memory_tickState(memord, h)
    /\ UNCHANGED others_memord

(* ============================ race-condition =========================== *)

Race_initThreads == [i \in 1..3 |-> [step |-> "idle", localValue |-> NoValue]]

Race_state0 ==
    [unsafeCounter |-> 0, unsafeThreads |-> Race_initThreads, unsafeLog |-> <<>>,
     unsafeRunning |-> FALSE, lostUpdates |-> 0,
     atomicCounter |-> 0, atomicThreads |-> Race_initThreads, atomicLog |-> <<>>,
     atomicRunning |-> FALSE,
     unsafeInterval |-> NoHandle, atomicInterval |-> NoHandle,
     unsafeTimers |-> NoTimers, atomicTimers |-> NoTimers]

(* sequence of runUnsafeDemo: three reads, three computes, three writes    *)
Race_sequence ==
    << [threadId |-> 1, action |-> "read"], [threadId |-> 2, action |-> "read"],
       [threadId |-> 3, action |-> "read"],
       [threadId |-> 1, action |-> "compute"], [threadId |-> 2, action |-> "compute"],
       [threadId |-> 3, action |-> "compute"],
       [threadId |-> 1, action |-> "write"], [threadId |-> 2, action |-> "write"],
       [threadId |-> 3, action |-> "write"] >>

Race_threadOrder == <<1, 2, 3>>

Race_runUnsafeState(r) ==
    LET h == FreshHandle(r.unsafeTimers, {r.unsafeInterval}) IN
    [r EXCEPT !.unsafeCounter = 0, !.unsafeLog = <<>>, !.lostUpdates = 0,
              !.unsafeRunning = TRUE, !.unsafeThreads = Race_initThreads,
              !.unsafeTimers =
                  setInterval(r.unsafeTimers, h,
                              [counter |-> 0, step |-> 0, lost |-> 0,
                               threadLocalValues |-> [i \in 1..3 |-> NoValue]]),
              !.unsafeInterval = h]

(* the interval callback counting a write as lost only when the counter   *)
(* is strictly above the written value                                     *)
Race_unsafeTickStateStrictLost(r, h) ==
    LET c == r.unsafeTimers[h] IN
    IF c.step >= Len(Race_sequence)
    THEN [r EXCEPT !.unsafeTimers = clearInterval(r.unsafeTimers, r.unsafeInterval),
                   !.unsafeThreads = [i \in 1..3 |-> [r.unsafeThreads[i] EXCEPT !.step = "done"]],
                   !.unsafeRunning = FALSE]
    ELSE
      LET action == Race_sequence[c.step + 1]
          t == action.threadId
      IN CASE action.action = "read" ->
                [r EXCEPT !.unsafeThreads[t] = [step |-> "reading", localValue |-> c.counter],
                          !.unsafeLog = Append(@, [threadId |-> t, action |-> "read",
                                                   value |-> c.counter, isLostUpdate |-> FALSE]),
                          !.unsafeTimers[h] = [c EXCEPT !.threadLocalValues[t] = c.counter,
                                                        !.step = c.step + 1]]
           [] action.action = "compute" ->
                LET computed == c.threadLocalValues[t] + 1 IN
                [r EXCEPT !.unsafeThreads[t] = [step |-> "computing", localValue |-> computed],
                          !.unsafeLog = Append(@, [threadId |-> t, action |-> "compute",
                                                   value |-> c.counter, isLostUpdate |-> FALSE]),
                          !.unsafeTimers[h] = [c EXCEPT !.threadLocalValues[t] = computed,
                                                        !.step = c.step + 1]]
           [] OTHER ->
                LET valueToWrite == c.threadLocalValues[t]
                    isLost == c.counter > valueToWrite
                    lost == IF isLost THEN c.lost + 1 ELSE c.lost
                IN [r EXCEPT !.unsafeThreads[t].step = "writing",
                             !.lostUpdates = IF isLost THEN lost ELSE @,
                             !.unsafeCounter = valueToWrite,
                             !.unsafeLog = Append(@, [threadId |-> t, action |-> "write",
                                                      value |-> valueToWrite,
                                                      isLostUpdate |-> isLost]),
                             !.unsafeTimers[h] = [c EXCEPT !.counter = valueToWrite,
                                                           !.lost = lost,
                                                           !.step = c.step + 1]]

(* The interval callback of runUnsafeDemo.                                 *)
Race_unsafeTickState(r, h) ==
    LET c == r.unsafeTimers[h] IN
    IF c.step >= Len(Race_sequence)
    THEN [r EXCEPT !.unsafeTimers = clearInterval(r.unsafeTimers, r.unsafeInterval),
                   !.unsafeThreads = [i \in 1..3 |-> [r.unsafeThreads[i] EXCEPT !.step = "done"]],
                   !.unsafeRunning = FALSE]
    ELSE
      LET action == Race_sequence[c.step + 1]
          t == action.threadId
      IN CASE action.action = "read" ->
                [r EXCEPT !.unsafeThreads[t] = [step |-> "reading", localValue |-> c.counter],
                          !.unsafeLog = Append(@, [threadId |-> t, action |-> "read",
                                                   value |-> c.counter, isLostUpdate |-> FALSE]),
                          !.unsafeTimers[h] = [c EXCEPT !.threadLocalValues[t] = c.counter,
                                                        !.step = c.step + 1]]
           [] action.action = "compute" ->
                LET computed == c.threadLocalValues[t] + 1 IN
                [r EXCEPT !.unsafeThreads[t] = [step |-> "computing", localValue |-> computed],
                          !.unsafeLog = Append(@, [threadId |-> t, action |-> "compute",
                                                   value |-> c.counter, isLostUpdate |-> FALSE]),
                          !.unsafeTimers[h] = [c EXCEPT !.threadLocalValues[t] = computed,
                                                        !.step = c.step + 1]]
           [] OTHER ->
                LET valueToWrite == c.threadLocalValues[t]
                    isLost == c.counter >= valueToWrite
                    lost == IF isLost THEN c.lost + 1 ELSE c.lost
                IN [r EXCEPT !.unsafeThreads[t].step = "writing",
                             !.lostUpdates = IF isLost THEN lost ELSE @,
                             !.unsafeCounter = valueToWrite,
                             !.unsafeLog = Append(@, [threadId |-> t, action |-> "write",
                                                      value |-> valueToWrite,
                                                      isLostUpdate |-> isLost]),
                             !.unsafeTimers[h] = [c EXCEPT !.counter = valueToWrite,
                                                           !.lost = lost,
                                                           !.step = c.step + 1]]

Race_runAtomicState(r) ==
    LET h == FreshHandle(r.atomicTimers, {r.atomicInterval}) IN
    [r EXCEPT !.atomicCounter = 0, !.atomicLog = <<>>, !.atomicRunning = TRUE,
              !.atomicThreads = Race_initThreads,
              !.atomicTimers = setInterval(r.atomicTimers, h,
                                           [counter |-> 0, threadIndex |-> 0]),
              !.atomicInterval = h]

(* The interval callback of runAtomicDemo. The updater handed to            *)
(* setAtomicThreads evaluates `counter + 1` when React runs it: either at  *)
(* the call (before `counter++`) or, deferred, when the queued update is   *)
(* processed after the callback has returned (after `counter++`).          *)
Race_atomicTickState(r, h, deferred) ==
    LET c == r.atomicTimers[h] IN
    IF c.threadIndex >= Len(Race_threadOrder)
    THEN [r EXCEPT !.atomicTimers = clearInterval(r.atomicTimers, r.atomicInterval),
                   !.atomicThreads = [i \in 1..3 |-> [r.atomicThreads[i] EXCEPT !.step = "done"]],
                   !.atomicRunning = FALSE]
    ELSE
      LET currentThread == Race_threadOrder[c.threadIndex + 1] IN
      [r EXCEPT !.atomicThreads[currentThread] =
                    [step |-> "writing",
                     localValue |-> IF deferred THEN (c.counter + 1) + 1
                                    ELSE c.counter + 1],
                !.atomicCounter = c.counter + 1,
                !.atomicLog = Append(@, [threadId |-> currentThread,
                                         action |-> "atomic increment",
                                         value |-> c.counter + 1]),
                !.atomicTimers[h] = [counter |-> c.counter + 1,
                                     threadIndex |-> c.threadIndex + 1]]

Race_resetAllState(r) ==
    [r EXCEPT !.unsafeTimers = IF r.unsafeInterval # NoHandle
                               THEN clearInterval(r.unsafeTimers, r.unsafeInterval)
                               ELSE r.unsafeTimers,
              !.atomicTimers = IF r.atomicInterval # NoHandle
                               THEN clearInterval(r.atomicTimers, r.atomicInterval)
                               ELSE r.atomicTimers,
              !.unsafeCounter = 0, !.atomicCounter = 0, !.unsafeLog = <<>>,
              !.atomicLog = <<>>, !.lostUpdates = 0, !.unsafeRunning = FALSE,
              !.atomicRunning = FALSE, !.unsafeThreads = Race_initThreads,
              !.atomicThreads = Race_initThreads]

(* Run Both Demos is disabled while unsafeRunning or atomicRunning.        *)
Race_canRun(r) == ~(r.unsafeRunning \/ r.atomicRunning)

Race_runBoth ==
    /\ page = "race-condition"
    /\ Race_canRun(race)
    /\ race' = Race_runAtomicState(Race_runUnsafeState(race))
    /\ UNCHANGED others_race

Race_resetAll ==
    /\ page = "race-condition"
    /\ race' = Race_resetAllState(race)
    /\ UNCHANGED others_race

Race_unsafeTick ==
    /\ page = "race-condition"
    /\ \E h \in DOMAIN race.unsafeTimers : race' = Race_unsafeTickState(race, h)
    /\ UNCHANGED others_race

Race_atomicTick ==
    /\ page = "race-condition"
    /\ \E h \in DOMAIN race.atomicTimers, deferred \in BOOLEAN :
         race' = Race_atomicTickState(race, h, deferred)
    /\ UNCHANGED others_race

(* ============================= locks and CAS =========================== *)

Locks_lockDemo0 ==
    [active |-> FALSE, waiting |-> <<>>, currentHolder |-> NoThread,
     completedThreads |-> <<>>, phase |-> "idle", executionLog |-> <<>>]

Locks_casDemo0 ==
    [attempts |-> <<>>, value |-> 100, isRunning |-> FALSE, phase |-> "idle",
     currentThread |-> NoThread]

Locks_state0 ==
    [showExplanation |-> TRUE, lockDemo |-> Locks_lockDemo0, casDemo |-> Locks_casDemo0,
     lockInterval |-> NoHandle, casInterval |-> NoHandle,
     lockTimers |-> NoTimers, casTimers |-> NoTimers]

Locks_initialThreads == <<1, 2, 3, 4>>

Locks_phases == <<"holding", "releasing", "acquiring">>

Locks_startLockState(s) ==
    LET h == FreshHandle(s.lockTimers, {s.lockInterval}) IN
    [s EXCEPT !.lockDemo = [active |-> TRUE, waiting |-> Tail(Locks_initialThreads),
                            currentHolder |-> Head(Locks_initialThreads),
                            completedThreads |-> <<>>, phase |-> "acquiring",
                            executionLog |-> <<"Thread 1 acquired the lock">>],
              !.lockTimers = setInterval(s.lockTimers, h, [step |-> 0]),
              !.lockInterval = h]

(* the interval callback granting the lock to the last thread of the      *)
(* waiting queue                                                           *)
Locks_lockTickStateLastWaiting(s, h) ==
    LET prev == s.lockDemo
        step == s.lockTimers[h].step
    IN
    IF Len(prev.completedThreads) >= 4
    THEN [s EXCEPT !.lockTimers = clearInterval(s.lockTimers, s.lockInterval),
                   !.lockDemo = [prev EXCEPT !.active = FALSE, !.phase = "idle",
                                             !.currentHolder = NoThread,
                                             !.executionLog = Append(@, "All threads completed successfully!")]]
    ELSE
      LET currentPhase == Locks_phases[(step % 3) + 1]
          s1 == [s EXCEPT !.lockTimers[h].step = step + 1]
      IN CASE currentPhase = "holding" ->
                [s1 EXCEPT !.lockDemo.phase = "holding",
                           !.lockDemo.executionLog = Append(@, <<"critical work", prev.currentHolder>>)]
           [] currentPhase = "releasing" ->
                [s1 EXCEPT !.lockDemo.phase = "releasing",
                           !.lockDemo.completedThreads =
                               IF prev.currentHolder # NoThread
                               THEN Append(@, prev.currentHolder) ELSE @,
                           !.lockDemo.executionLog = Append(@, <<"released", prev.currentHolder>>)]
           [] OTHER ->
                IF prev.waiting = <<>>
                THEN [s1 EXCEPT !.lockTimers = clearInterval(s1.lockTimers, s1.lockInterval),
                                !.lockDemo.active = FALSE, !.lockDemo.phase = "idle",
                                !.lockDemo.currentHolder = NoThread]
                ELSE [s1 EXCEPT !.lockDemo.phase = "acquiring",
                                !.lockDemo.currentHolder = prev.waiting[Len(prev.waiting)],
                                !.lockDemo.waiting = SubSeq(prev.waiting, 1, Len(prev.waiting) - 1),
                                !.lockDemo.executionLog = Append(@, <<"acquired", prev.waiting[Len(prev.waiting)]>>)]

(* The interval callback of startLockDemo: one setLockDemo updater.        *)
Locks_lockTickState(s, h) ==
    LET prev == s.lockDemo
        step == s.lockTimers[h].step
    IN
    IF Len(prev.completedThreads) >= 4
    THEN [s EXCEPT !.lockTimers = clearInterval(s.lockTimers, s.lockInterval),
                   !.lockDemo = [prev EXCEPT !.active = FALSE, !.phase = "idle",
                                             !.currentHolder = NoThread,
                                             !.executionLog = Append(@, "All threads completed successfully!")]]
    ELSE
      LET currentPhase == Locks_phases[(step % 3) + 1]
          s1 == [s EXCEPT !.lockTimers[h].step = step + 1]
      IN CASE currentPhase = "holding" ->
                [s1 EXCEPT !.lockDemo.phase = "holding",
                           !.lockDemo.executionLog = Append(@, <<"critical work", prev.currentHolder>>)]
           [] currentPhase = "releasing" ->
                [s1 EXCEPT !.lockDemo.phase = "releasing",
                           !.lockDemo.completedThreads =
                               IF prev.currentHolder # NoThread
                               THEN Append(@, prev.currentHolder) ELSE @,
                           !.lockDemo.executionLog = Append(@, <<"released", prev.currentHolder>>)]
           [] OTHER ->
                IF prev.waiting = <<>>
                THEN [s1 EXCEPT !.lockTimers = clearInterval(s1.lockTimers, s1.lockInterval),
                                !.lockDemo.active = FALSE, !.lockDemo.phase = "idle",
                                !.lockDemo.currentHolder = NoThread]
                ELSE [s1 EXCEPT !.lockDemo.phase = "acquiring",
                                !.lockDemo.currentHolder = Head(prev.waiting),
                                !.lockDemo.waiting = Tail(prev.waiting),
                                !.lockDemo.executionLog = Append(@, <<"acquired", Head(prev.waiting)>>)]

Locks_resetLockState(s) ==
    [s EXCEPT !.lockTimers = IF s.lockInterval # NoHandle
                             THEN clearInterval(s.lockTimers, s.lockInterval)
                             ELSE s.lockTimers,
              !.lockDemo = Locks_lockDemo0]

(* threads of startCASDemo: the thread id of each scripted attempt         *)
Locks_casThreads == <<1, 2, 3, 1, 2>>

Locks_startCASState(s) ==
    LET h == FreshHandle(s.casTimers, {s.casInterval}) IN
    [s EXCEPT !.casDemo = [attempts |-> <<>>, value |-> 100, isRunning |-> TRUE,
                           phase |-> "idle", currentThread |-> NoThread],
              !.casTimers = setInterval(s.casTimers, h,
                                        [attemptIndex |-> 0, currentValue |-> 100]),
              !.casInterval = h]

(* The interval callback of startCASDemo.                                  *)
Locks_casTickState(s, h) ==
    LET c == s.casTimers[h] IN
    IF c.attemptIndex >= Len(Locks_casThreads)
    THEN [s EXCEPT !.casTimers = clearInterval(s.casTimers, s.casInterval),
                   !.casDemo.isRunning = FALSE, !.casDemo.phase = "idle",
                   !.casDemo.currentThread = NoThread]
    ELSE
      LET threadId == Locks_casThreads[c.attemptIndex + 1]
          expectedValue == c.currentValue
          actualValue == IF c.attemptIndex > 0 /\ c.attemptIndex < 3
                         THEN c.currentValue + 1 ELSE c.currentValue
          success == expectedValue = actualValue
          newValue == actualValue + 1
      IN [s EXCEPT !.casDemo.value = IF success THEN newValue ELSE @,
                   !.casDemo.phase = IF success THEN "swapping" ELSE "retrying",
                   !.casDemo.currentThread = threadId,
                   !.casDemo.attempts =
                       Append(@, [expected |-> expectedValue, actual |-> actualValue,
                                  newValue |-> newValue, success |-> success,
                                  id |-> c.attemptIndex, threadId |-> threadId]),
                   !.casTimers[h] = [attemptIndex |-> c.attemptIndex + 1,
                                     currentValue |-> IF success THEN newValue
                                                      ELSE c.currentValue]]

Locks_resetCASState(s) ==
    [s EXCEPT !.casTimers = IF s.casInterval # NoHandle
                            THEN clearInterval(s.casTimers, s.casInterval)
                            ELSE s.casTimers,
              !.casDemo = Locks_casDemo0]

(* Start Lock Demo is disabled while lockDemo.active.                      *)
Locks_canStartLock(s) == ~s.lockDemo.active

(* Start CAS Demo is disabled while casDemo.isRunning.                     *)
Locks_canStartCAS(s) == ~s.casDemo.isRunning

Locks_startLockDemo ==
    /\ page = "locks-cas"
    /\ Locks_canStartLock(locks)
    /\ locks' = Locks_startLockState(locks)
    /\ UNCHANGED others_locks

Locks_resetLockDemo ==
    /\ page = "locks-cas"
    /\ locks' = Locks_resetLockState(locks)
    /\ UNCHANGED others_locks

Locks_lockTick ==
    /\ page = "locks-cas"
    /\ \E h \in DOMAIN locks.lockTimers : locks' = Locks_lockTickState(locks, h)
    /\ UNCHANGED others_locks

Locks_startCASDemo ==
    /\ page = "locks-cas"
    /\ Locks_canStartCAS(locks)
    /\ locks' = Locks_startCASState(locks)
    /\ UNCHANGED others_locks

Locks_resetCASDemo ==
    /\ page = "locks-cas"
    /\ locks' = Locks_resetCASState(locks)
    /\ UNCHANGED others_locks

Locks_casTick ==
    /\ page = "locks-cas"
    /\ \E h \in DOMAIN locks.casTimers : locks' = Locks_casTickState(locks, h)
    /\ UNCHANGED others_locks

Locks_toggleExplanation ==
    /\ page = "locks-cas"
    /\ locks' = [locks EXCEPT !.showExplanation = ~locks.showExplanation]
    /\ UNCHANGED others_locks

(* ============================ async-vs-threads ========================= *)

AsyncLogKeep == 10

(* ticks after which the interval callback of runDemo stops the run        *)
Async_tickLimit == 100

(* A task's progress field holds the number of increments of               *)
(* 100 / duration / 4 added so far.  Added in IEEE doubles, the sum        *)
(* reaches 100 after 8 increments of 12.5 (duration 2), 16 of 6.25         *)
(* (duration 4), and 13 of 8.333333333333334 (duration 3: twelve           *)
(* increments sum to 99.99999999999999).                                   *)
IncrementsToComplete(duration) ==
    CASE duration = 2 -> 8
      [] duration = 3 -> 13
      [] OTHER -> 16

ProgressDone(progress, duration) == progress >= IncrementsToComplete(duration)

Async_createDemoTasks ==
    << [id |-> 1, type |-> "io", duration |-> 3, status |-> "pending", startTime |-> 0, progress |-> 0],
       [id |-> 2, type |-> "io", duration |-> 2, status |-> "pending", startTime |-> 0, progress |-> 0],
       [id |-> 3, type |-> "io", duration |-> 4, status |-> "pending", startTime |-> 0, progress |-> 0],
       [id |-> 4, type |-> "cpu", duration |-> 2, status |-> "pending", startTime |-> 0, progress |-> 0] >>

Async_state0 ==
    [asyncTasks |-> <<>>, threadTasks |-> <<>>, parallelTasks |-> <<>>,
     asyncTime |-> 0, threadTime |-> 0, parallelTime |-> 0, isRunning |-> FALSE,
     logs |-> <<>>, intervalRef |-> NoHandle, timers |-> NoTimers]

(* tasks.every((t) => t.status === "completed")                            *)
Async_allDone(tasks) == \A i \in 1..Len(tasks) : tasks[i].status = "completed"

Async_addLog(logs, message) == AppendLog(logs, AsyncLogKeep, message)

Async_resetState(a) ==
    [a EXCEPT !.timers = IF a.intervalRef # NoHandle
                         THEN clearInterval(a.timers, a.intervalRef)
                         ELSE a.timers,
              !.asyncTasks = <<>>, !.threadTasks = <<>>, !.parallelTasks = <<>>,
              !.asyncTime = 0, !.threadTime = 0, !.parallelTime = 0,
              !.isRunning = FALSE, !.logs = <<>>]

(* tasks.find((t) => t.id === id): its index, 0 when there is none         *)
Async_findById(tasks, id) ==
    IF \E i \in 1..Len(tasks) : tasks[i].id = id
    THEN CHOOSE i \in 1..Len(tasks) :
             tasks[i].id = id /\ \A j \in 1..(i - 1) : tasks[j].id # id
    ELSE 0

(* asyncWaitingFor.filter(...): the I/O waits progress in the background.  *)
(* st = [tasks, logs]; ids = the waits left to visit; kept = those kept.   *)
RECURSIVE Async_ioWaits(_, _, _)
Async_ioWaits(st, ids, kept) ==
    IF ids = <<>> THEN [tasks |-> st.tasks, logs |-> st.logs, waitingFor |-> kept]
    ELSE
      LET id == Head(ids)
          i == Async_findById(st.tasks, id)
      IN IF i # 0 /\ st.tasks[i].status = "waiting"
         THEN LET progress == st.tasks[i].progress + 1 IN
              IF ProgressDone(progress, st.tasks[i].duration)
              THEN Async_ioWaits(
                     [tasks |-> [st.tasks EXCEPT ![i].progress = progress,
                                                 ![i].status = "completed"],
                      logs |-> Async_addLog(st.logs, <<"[Async] completed (I/O returned)", id>>)],
                     Tail(ids), kept)
              ELSE Async_ioWaits([st EXCEPT !.tasks[i].progress = progress],
                                 Tail(ids), Append(kept, id))
         ELSE Async_ioWaits(st, Tail(ids), Append(kept, id))

(* while (asyncCurrentTask < tasks.length) { ... }                         *)
(* st = [tasks, logs, waitingFor, cur, tick]                               *)
RECURSIVE Async_loop(_)
Async_loop(st) ==
    IF st.cur >= Len(st.tasks) THEN st
    ELSE
      LET i == st.cur + 1
          s1 == IF st.tasks[i].status = "pending"
                THEN [st EXCEPT !.tasks[i].status = "running",
                                !.tasks[i].startTime = st.tick,
                                !.logs = Async_addLog(@, <<"[Async] Started task", st.tasks[i].id>>)]
                ELSE st
          current == s1.tasks[i]
      IN IF current.status = "running"
         THEN IF current.type = "io"
              THEN Async_loop([s1 EXCEPT !.tasks[i].status = "waiting",
                                         !.waitingFor = Append(@, current.id),
                                         !.logs = Async_addLog(@, <<"[Async] awaiting I/O (yields)", current.id>>),
                                         !.cur = s1.cur + 1])
              ELSE LET progress == current.progress + 1 IN
                   IF ProgressDone(progress, current.duration)
                   THEN [s1 EXCEPT !.tasks[i].progress = progress,
                                   !.tasks[i].status = "completed",
                                   !.logs = Async_addLog(@, <<"[Async] completed (CPU done)", current.id>>),
                                   !.cur = s1.cur + 1]
                   ELSE [s1 EXCEPT !.tasks[i].progress = progress]
         ELSE IF current.status \in {"completed", "waiting"}
              THEN Async_loop([s1 EXCEPT !.cur = s1.cur + 1])
              ELSE s1

(* The setAsyncTasks updater of the interval callback.                     *)
Async_asyncUpdate(a, c, tick) ==
    IF Async_allDone(a.asyncTasks)
    THEN [state |-> [a EXCEPT !.asyncTime = tick], closure |-> c]
    ELSE
      LET w == Async_ioWaits([tasks |-> a.asyncTasks, logs |-> a.logs],
                             c.asyncWaitingFor, <<>>)
          l == Async_loop([tasks |-> w.tasks, logs |-> w.logs,
                           waitingFor |-> w.waitingFor,
                           cur |-> c.asyncCurrentTask, tick |-> tick])
      IN [state |-> [a EXCEPT !.asyncTasks = l.tasks, !.logs = l.logs],
          closure |-> [c EXCEPT !.asyncCurrentTask = l.cur,
                                !.asyncWaitingFor = l.waitingFor]]

(* tasks.find((t) => t.status !== "completed"): its index                  *)
Async_firstActive(tasks) ==
    CHOOSE i \in 1..Len(tasks) :
        /\ tasks[i].status # "completed"
        /\ \A j \in 1..(i - 1) : tasks[j].status = "completed"

(* The setThreadTasks updater of the interval callback.                    *)
Async_threadUpdate(a, tick) ==
    IF Async_allDone(a.threadTasks) THEN [a EXCEPT !.threadTime = tick]
    ELSE
      LET i == Async_firstActive(a.threadTasks)
          t == a.threadTasks[i]
          a1 == IF t.status = "pending"
                THEN [a EXCEPT !.threadTasks[i].status = "running",
                               !.logs = Async_addLog(@, <<"[Thread] Started task", t.id>>)]
                ELSE a
          progress == t.progress + 1
      IN IF ProgressDone(progress, t.duration)
         THEN [a1 EXCEPT !.threadTasks[i].progress = progress,
                         !.threadTasks[i].status = "completed",
                         !.logs = Async_addLog(@, <<"[Thread] completed", t.id>>)]
         ELSE [a1 EXCEPT !.threadTasks[i].progress = progress]

Async_parallelTask(t) ==
    IF t.status \in {"pending", "running"}
    THEN [t EXCEPT !.status = IF ProgressDone(t.progress + 1, t.duration)
                              THEN "completed" ELSE "running",
                   !.progress = t.progress + 1]
    ELSE t

(* The setParallelTasks updater of the interval callback.                  *)
Async_parallelUpdate(a, tick) ==
    IF Async_allDone(a.parallelTasks) THEN [a EXCEPT !.parallelTime = tick]
    ELSE [a EXCEPT !.parallelTasks =
                       [i \in 1..Len(a.parallelTasks) |-> Async_parallelTask(a.parallelTasks[i])]]

(* The interval callback of runDemo.  allAsyncDone, allThreadDone and      *)
(* allParallelDone read the arrays of the render in which runDemo was      *)
(* created: the closure's staleAllDone.                                    *)
Async_tickState(a, h) ==
    LET c == a.timers[h]
        tick == c.tick + 1
        u == Async_asyncUpdate(a, c, tick)
        a2 == Async_parallelUpdate(Async_threadUpdate(u.state, tick), tick)
        a3 == [a2 EXCEPT !.timers[h] = [u.closure EXCEPT !.tick = tick]]
    IN IF tick > Async_tickLimit \/ c.staleAllDone
       THEN [a3 EXCEPT !.isRunning = FALSE,
                       !.timers = IF a3.intervalRef # NoHandle
                                  THEN clearInterval(a3.timers, a3.intervalRef)
                                  ELSE a3.timers]
       ELSE a3

Async_runDemoState(a) ==
    LET r == Async_resetState(a)
        h == FreshHandle(r.timers, {r.intervalRef})
    IN [r EXCEPT !.isRunning = TRUE,
                 !.asyncTasks = Async_createDemoTasks,
                 !.threadTasks = Async_createDemoTasks,
                 !.parallelTasks = Async_createDemoTasks,
                 !.timers = setInterval(r.timers, h,
                     [tick |-> 0, asyncCurrentTask |-> 0, asyncWaitingFor |-> <<>>,
                      staleAllDone |-> /\ Async_allDone(a.asyncTasks)
                                       /\ Async_allDone(a.threadTasks)
                                       /\ Async_allDone(a.parallelTasks)]),
                 !.intervalRef = h]

(* Run Demo is disabled while isRunning.                                   *)
Async_canRun(a) == ~a.isRunning

Async_runDemo ==
    /\ page = "async-vs-threads"
    /\ Async_canRun(async)
    /\ async' = Async_runDemoState(async)
    /\ UNCHANGED others_async

Async_reset ==
    /\ page = "async-vs-threads"
    /\ async' = Async_resetState(async)
    /\ UNCHANGED others_async

Async_tick ==
    /\ page = "async-vs-threads"
    /\ \E h \in DOMAIN async.timers : async' = Async_tickState(async, h)
    /\ UNCHANGED others_async

(* ============================== starvation ============================= *)

StarvationLogKeep == 12

(* a waiting thread turns "starving" once its waitTime exceeds this        *)
Starvation_starveAfter == 20

(* the fair comparator divides the wait-time difference by this            *)
Starvation_waitBonusUnit == 10

(* ticks of one run that the model follows                                 *)
MaxStarvationTicks == 10

Starvation_initThreads ==
    << [id |-> 1, priority |-> "high", status |-> "waiting", waitTime |-> 0, executionTime |-> 0],
       [id |-> 2, priority |-> "high", status |-> "waiting", waitTime |-> 0, executionTime |-> 0],
       [id |-> 3, priority |-> "medium", status |-> "waiting", waitTime |-> 0, executionTime |-> 0],
       [id |-> 4, priority |-> "low", status |-> "waiting", waitTime |-> 0, executionTime |-> 0],
       [id |-> 5, priority |-> "low", status |-> "waiting", waitTime |-> 0, executionTime |-> 0] >>

Starvation_state0 ==
    [showExplanation |-> TRUE, isRunning |-> FALSE, isPaused |-> FALSE,
     scenario |-> "unfair", threads |-> <<>>, currentThread |-> Null, logs |-> <<>>,
     lockHolder |-> NoThread, tick |-> 0,
     intervalRef |-> NoHandle, pauseRef |-> FALSE, timers |-> NoTimers]

Starvation_addLog(logs, message) == AppendLog(logs, StarvationLogKeep, message)

Starvation_resetState(s) ==
    [s EXCEPT !.timers = IF s.intervalRef # NoHandle
                         THEN clearInterval(s.timers, s.intervalRef)
                         ELSE s.timers,
              !.isRunning = FALSE, !.isPaused = FALSE, !.pauseRef = FALSE,
              !.threads = Starvation_initThreads, !.currentThread = Null,
              !.logs = <<>>, !.lockHolder = NoThread, !.tick = 0]

priorityOrder(priority) ==
    CASE priority = "high" -> 0
      [] priority = "medium" -> 1
      [] OTHER -> 2

(* Math.floor(n / d) for d > 0 (\div rounds toward minus infinity too)     *)
Floor(n, d) == n \div d

(* the comparator of the unfair sort                                       *)
Starvation_unfairCompare(a, b) == priorityOrder(a.priority) - priorityOrder(b.priority)

(* the comparator of the fair sort                                         *)
Starvation_fairCompare(a, b) ==
    (priorityOrder(a.priority) - priorityOrder(b.priority))
    - Floor(b.waitTime - a.waitTime, Starvation_waitBonusUnit)

(* threads.filter((t) => t.status !== "running"), as indexes into threads  *)
Starvation_waiting(threads) ==
    {i \in 1..Len(threads) : threads[i].status # "running"}

(* waiting[0] of an unsorted list whose order is not fixed: any thread     *)
(* that is not running                                                     *)
Starvation_unfairSelectedUnsorted(threads) ==
    LET w == Starvation_waiting(threads) IN
    IF w = {} THEN {0} ELSE w

(* waiting.sort(unfair)[0]: Array.prototype.sort is stable, so the first   *)
(* element is the earliest thread of the best priority; 0 when none waits  *)
Starvation_unfairSelected(threads) ==
    LET w == Starvation_waiting(threads) IN
    IF w = {} THEN {0}
    ELSE {i \in w : \A j \in w :
             \/ Starvation_unfairCompare(threads[i], threads[j]) < 0
             \/ Starvation_unfairCompare(threads[i], threads[j]) = 0 /\ i <= j}

(* whether the fair comparator orders the waiting threads consistently     *)
Starvation_fairConsistent(threads) ==
    LET w == Starvation_waiting(threads)
        le(i, j) == Starvation_fairCompare(threads[i], threads[j]) <= 0
        lt(i, j) == Starvation_fairCompare(threads[i], threads[j]) < 0
    IN /\ \A i, j \in w : lt(i, j) <=> ~le(j, i)
       /\ \A i, j, k \in w : le(i, j) /\ le(j, k) => le(i, k)

(* waiting.sort(fair)[0].  With a consistent comparator the stable sort    *)
(* puts the earliest least thread first; with an inconsistent one the      *)
(* order is implementation-defined and any waiting thread may come first.  *)
Starvation_fairSelected(threads) ==
    LET w == Starvation_waiting(threads) IN
    IF w = {} THEN {0}
    ELSE IF Starvation_fairConsistent(threads)
         THEN {i \in w : \A j \in w :
                  \/ Starvation_fairCompare(threads[i], threads[j]) < 0
                  \/ Starvation_fairCompare(threads[i], threads[j]) = 0 /\ i <= j}
         ELSE w

(* prev.map(...): waiting and starving threads age, a thread that has      *)
(* waited more than 20 ticks turns starving                                *)
Starvation_age(t) ==
    [t EXCEPT !.waitTime = IF t.status \in {"waiting", "starving"} THEN @ + 1 ELSE @,
              !.status = IF t.status = "waiting" /\ t.waitTime > Starvation_starveAfter
                         THEN "starving" ELSE @]

(* threads.find((t) => t.status === "running"): its index, 0 when none     *)
Starvation_running(threads) ==
    IF \E i \in 1..Len(threads) : threads[i].status = "running"
    THEN CHOOSE i \in 1..Len(threads) :
             /\ threads[i].status = "running"
             /\ \A j \in 1..(i - 1) : threads[j].status # "running"
    ELSE 0

(* The interval callback of runSimulation for the live interval h.         *)
(* selected = index chosen by the sort, release = Math.random() > 0.7.     *)
(* scenario and lockHolder are the values the closure captured.            *)
Starvation_tickState(s, h, selected, release) ==
    IF s.pauseRef THEN s
    ELSE
      LET c == s.timers[h]
          localTick == c.localTick + 1
          aged == [i \in 1..Len(s.threads) |-> Starvation_age(s.threads[i])]
          running == Starvation_running(aged)
          doRelease == running # 0 /\ release
          s1 == [s EXCEPT !.tick = localTick, !.timers[h].localTick = localTick]
          s2 == IF doRelease
                THEN [s1 EXCEPT !.logs = Starvation_addLog(@, "released"),
                                !.currentThread = Null, !.lockHolder = NoThread]
                ELSE s1
          released == IF doRelease
                      THEN [aged EXCEPT ![running].status = "waiting",
                                        ![running].waitTime = 0]
                      ELSE aged
          assign == c.lockHolder = NoThread /\ selected # 0
          assigned == IF assign
                      THEN [released EXCEPT ![selected].status = "running",
                                            ![selected].executionTime = @ + 1]
                      ELSE released
          s3 == IF assign
                THEN [s2 EXCEPT !.currentThread = assigned[selected],
                                !.lockHolder = assigned[selected].id,
                                !.logs = Starvation_addLog(@, "acquired")]
                ELSE s2
      IN [s3 EXCEPT !.threads = assigned]

Starvation_selected(scenario, threads) ==
    IF scenario = "unfair"
    THEN Starvation_unfairSelected(threads)
    ELSE Starvation_fairSelected(threads)

Starvation_runState(s) ==
    LET r == Starvation_resetState(s)
        h == FreshHandle(r.timers, {r.intervalRef})
    IN [r EXCEPT !.isRunning = TRUE, !.threads = Starvation_initThreads,
                 !.timers = setInterval(r.timers, h,
                                        [localTick |-> 0, scenario |-> s.scenario,
                                         lockHolder |-> s.lockHolder]),
                 !.intervalRef = h]

(* Start Demo is rendered only while not isRunning.                        *)
Starvation_canRun(s) == ~s.isRunning

Starvation_runSimulation ==
    /\ page = "starvation"
    /\ Starvation_canRun(starv)
    /\ starv' = Starvation_runState(starv)
    /\ UNCHANGED others_starv

Starvation_reset ==
    /\ page = "starvation"
    /\ starv' = Starvation_resetState(starv)
    /\ UNCHANGED others_starv

Starvation_tick ==
    /\ page = "starvation"
    /\ \E h \in DOMAIN starv.timers :
         /\ starv.timers[h].localTick < MaxStarvationTicks
         /\ \E release \in BOOLEAN :
              \E selected \in Starvation_selected(
                                starv.timers[h].scenario,
                                [i \in 1..Len(starv.threads) |-> Starvation_age(starv.threads[i])]) :
                starv' = Starvation_tickState(starv, h, selected, release)
    /\ UNCHANGED others_starv

(* Pause / Resume is rendered only while isRunning.                        *)
Starvation_togglePause ==
    /\ page = "starvation"
    /\ starv.isRunning
    /\ starv' = [starv EXCEPT !.isPaused = ~starv.isPaused,
                              !.pauseRef = ~starv.pauseRef]
    /\ UNCHANGED others_starv

(* the scenario buttons acting whatever isRunning is                       *)
Starvation_setScenarioWhileRunning ==
    /\ page = "starvation"
    /\ \E scenario \in {"unfair", "fair"} :
         starv' = [starv EXCEPT !.scenario = scenario]
    /\ UNCHANGED others_starv

(* The scenario buttons are disabled while isRunning.                      *)
Starvation_setScenario ==
    /\ page = "starvation"
    /\ ~starv.isRunning
    /\ \E scenario \in {"unfair", "fair"} :
         starv' = [starv EXCEPT !.scenario = scenario]
    /\ UNCHANGED others_starv

Starvation_toggleExplanation ==
    /\ page = "starvation"
    /\ starv' = [starv EXCEPT !.showExplanation = ~starv.showExplanation]
    /\ UNCHANGED others_starv

(* =============================== semaphore ============================= *)

SemaphoreLogKeep == 12

Semaphore_initialPermits == 3

Semaphore_minPermits == 1

Semaphore_maxPermitsLimit == 8

(* a request is rejected when this many requests are waiting               *)
Semaphore_queueLimit == 10

(* Each tick adds 100 / (Math.random() * 3 + 2) to a request's progress,   *)
(* more than 20 and at most 50: a request reaches 100 on its second tick   *)
(* at the earliest and on its fifth at the latest.  The progress field     *)
(* holds the number of ticks the request has been processed for.           *)
Semaphore_minTicks == 2

Semaphore_maxTicks == 5

(* requests of one run that the model follows                              *)
MaxSemaphoreRequests == 3

Semaphore_state0 ==
    [isRunning |-> FALSE, isPaused |-> FALSE, maxPermits |-> Semaphore_initialPermits,
     availablePermits |-> Semaphore_initialPermits, waitingRequests |-> <<>>,
     activeRequests |-> <<>>, completedCount |-> 0, rejectedCount |-> 0,
     logs |-> <<>>, requestCounter |-> 0, autoSpawn |-> TRUE,
     intervalRef |-> NoHandle, pauseRef |-> FALSE, timers |-> NoTimers]

Semaphore_addLog(logs, message) == AppendLog(logs, SemaphoreLogKeep, message)

(* reset without setRequestCounter(0)                                      *)
Semaphore_resetStateKeepingCounter(s) ==
    [s EXCEPT !.timers = IF s.intervalRef # NoHandle
                         THEN clearInterval(s.timers, s.intervalRef)
                         ELSE s.timers,
              !.isRunning = FALSE, !.isPaused = FALSE, !.pauseRef = FALSE,
              !.availablePermits = s.maxPermits, !.waitingRequests = <<>>,
              !.activeRequests = <<>>, !.completedCount = 0, !.rejectedCount = 0,
              !.logs = <<>>]

Semaphore_resetState(s) ==
    [s EXCEPT !.timers = IF s.intervalRef # NoHandle
                         THEN clearInterval(s.timers, s.intervalRef)
                         ELSE s.timers,
              !.isRunning = FALSE, !.isPaused = FALSE, !.pauseRef = FALSE,
              !.availablePermits = s.maxPermits, !.waitingRequests = <<>>,
              !.activeRequests = <<>>, !.completedCount = 0, !.rejectedCount = 0,
              !.logs = <<>>, !.requestCounter = 0]

(* spawnRequest as created by the render whose requestCounter,             *)
(* availablePermits and waitingRequests.length are given; s is the latest  *)
(* state, which the functional updaters read.                              *)
Semaphore_spawnRequestState(s, requestCounter, availablePermits, waitingLength) ==
    LET newRequest == [id |-> requestCounter + 1, status |-> "waiting", progress |-> 0]
        s1 == [s EXCEPT !.requestCounter = @ + 1]
    IN IF availablePermits > 0
       THEN [s1 EXCEPT !.availablePermits = @ - 1,
                       !.activeRequests = Append(@, [newRequest EXCEPT !.status = "processing"]),
                       !.logs = Semaphore_addLog(@, "acquired")]
       ELSE IF waitingLength < Semaphore_queueLimit
            THEN [s1 EXCEPT !.waitingRequests = Append(@, newRequest),
                            !.logs = Semaphore_addLog(@, "info")]
            ELSE [s1 EXCEPT !.rejectedCount = @ + 1,
                            !.logs = Semaphore_addLog(@, "rejected")]

(* the requests of prev that may, and those that must, complete this tick  *)
Semaphore_mayComplete(active) ==
    {i \in 1..Len(active) : active[i].progress + 1 >= Semaphore_minTicks}

Semaphore_mustComplete(active) ==
    {i \in 1..Len(active) : active[i].progress + 1 >= Semaphore_maxTicks}

(* the elements of s at the indexes in keep, in order                      *)
RECURSIVE SelectIndexes(_, _, _)
SelectIndexes(s, keep, i) ==
    IF i > Len(s) THEN <<>>
    ELSE IF i \in keep
         THEN <<s[i]>> \o SelectIndexes(s, keep, i + 1)
         ELSE SelectIndexes(s, keep, i + 1)

(* completed.forEach: release a permit, count, log                         *)
RECURSIVE Semaphore_release(_, _, _)
Semaphore_release(s, n, maxPermits) ==
    IF n = 0 THEN s
    ELSE Semaphore_release(
           [s EXCEPT !.availablePermits = Min(@ + 1, maxPermits),
                     !.completedCount = @ + 1,
                     !.logs = Semaphore_addLog(@, "released")],
           n - 1, maxPermits)

(* the setActiveRequests updater: done = the indexes that reach 100        *)
Semaphore_progress(s, done, maxPermits) ==
    LET prev == s.activeRequests
        stillActive == SelectIndexes(
                         [i \in 1..Len(prev) |-> [prev[i] EXCEPT !.progress = @ + 1]],
                         (1..Len(prev)) \ done, 1)
    IN Semaphore_release([s EXCEPT !.activeRequests = stillActive],
                         Cardinality(done), maxPermits)

RECURSIVE Semaphore_logN(_, _, _)
Semaphore_logN(logs, n, message) ==
    IF n = 0 THEN logs ELSE Semaphore_logN(Semaphore_addLog(logs, message), n - 1, message)

(* the setWaitingRequests updater: availablePermits is the closure's       *)
Semaphore_promote(s, availablePermits) ==
    LET prev == s.waitingRequests
        k == Min(Max(availablePermits, 0), Len(prev))
        promoting == [i \in 1..k |-> [prev[i] EXCEPT !.status = "processing"]]
    IN IF Len(prev) = 0 \/ k = 0 THEN s
       ELSE [s EXCEPT !.logs = Semaphore_logN(@, k, "acquired"),
                      !.availablePermits = availablePermits - k,
                      !.activeRequests = @ \o promoting,
                      !.waitingRequests = SubSeq(prev, k + 1, Len(prev))]

(* The interval callback of runSimulation for the live interval h.         *)
(* done = the active requests that reach 100, spawn = Math.random() > 0.6. *)
Semaphore_tickState(s, h, done, spawn) ==
    IF s.pauseRef THEN s
    ELSE
      LET c == s.timers[h]
          s1 == Semaphore_progress(s, done, c.maxPermits)
          s2 == Semaphore_promote(s1, c.availablePermits)
      IN IF c.autoSpawn /\ spawn
         THEN Semaphore_spawnRequestState(s2, c.requestCounter, c.availablePermits,
                                          c.waitingLength)
         ELSE s2

Semaphore_runState(s) ==
    LET r == Semaphore_resetState(s)
        h == FreshHandle(r.timers, {r.intervalRef})
    IN [r EXCEPT !.isRunning = TRUE,
                 !.timers = setInterval(r.timers, h,
                     [availablePermits |-> s.availablePermits,
                      maxPermits |-> s.maxPermits, autoSpawn |-> s.autoSpawn,
                      requestCounter |-> s.requestCounter,
                      waitingLength |-> Len(s.waitingRequests)]),
                 !.intervalRef = h]

Semaphore_updateMaxPermitsState(s, delta) ==
    IF ~s.isRunning
    THEN LET newMax == Max(Semaphore_minPermits,
                           Min(Semaphore_maxPermitsLimit, s.maxPermits + delta))
         IN [s EXCEPT !.maxPermits = newMax, !.availablePermits = newMax]
    ELSE s

(* Start Demo is rendered only while not isRunning.                        *)
Semaphore_canRun(s) == ~s.isRunning

Semaphore_runSimulation ==
    /\ page = "semaphore"
    /\ Semaphore_canRun(sem)
    /\ sem' = Semaphore_runState(sem)
    /\ UNCHANGED others_sem

Semaphore_reset ==
    /\ page = "semaphore"
    /\ sem' = Semaphore_resetState(sem)
    /\ UNCHANGED others_sem

Semaphore_tick ==
    /\ page = "semaphore"
    /\ \E h \in DOMAIN sem.timers :
         \E done \in SUBSET Semaphore_mayComplete(sem.activeRequests) :
           \E spawn \in BOOLEAN :
             /\ Semaphore_mustComplete(sem.activeRequests) \subseteq done
             /\ spawn => sem.requestCounter < MaxSemaphoreRequests
             /\ sem' = Semaphore_tickState(sem, h, done, spawn)
    /\ UNCHANGED others_sem

Semaphore_togglePause ==
    /\ page = "semaphore"
    /\ sem.isRunning
    /\ sem' = [sem EXCEPT !.isPaused = ~sem.isPaused, !.pauseRef = ~sem.pauseRef]
    /\ UNCHANGED others_sem

(* The - and + buttons are disabled while isRunning and at the limits.     *)
Semaphore_updateMaxPermits ==
    /\ page = "semaphore"
    /\ \E delta \in {-1, 1} :
         /\ ~sem.isRunning
         /\ delta = -1 => sem.maxPermits > Semaphore_minPermits
         /\ delta = 1 => sem.maxPermits < Semaphore_maxPermitsLimit
         /\ sem' = Semaphore_updateMaxPermitsState(sem, delta)
    /\ UNCHANGED others_sem

(* Add Request is disabled unless isRunning and not isPaused.              *)
Semaphore_addRequest ==
    /\ page = "semaphore"
    /\ sem.isRunning /\ ~sem.isPaused
    /\ sem.requestCounter < MaxSemaphoreRequests
    /\ sem' = Semaphore_spawnRequestState(sem, sem.requestCounter, sem.availablePermits,
                                          Len(sem.waitingRequests))
    /\ UNCHANGED others_sem

Semaphore_setAutoSpawn ==
    /\ page = "semaphore"
    /\ sem' = [sem EXCEPT !.autoSpawn = ~sem.autoSpawn]
    /\ UNCHANGED others_sem

(* ============================== thread-pool ============================ *)
(* src/app/thread-pool/page.tsx.  A task's progress field holds the number *)
(* of increments of 100 / duration / 4 added so far.                       *)

PoolLogKeep == 15

Pool_initialWorkerCount == 4

Pool_workerCounts == {2, 4, 6, 8}

Pool_minDuration == 2

Pool_maxDuration == 4

Pool_batchSize == 10

Pool_completedKeep == 20

(* bounds of the model: single tasks added before a batch, the longest     *)
(* duration drawn and the largest worker count chosen                      *)
MaxPoolSingles == 1

MaxPoolDuration == 3

MaxPoolWorkers == 4

Pool_durations == Pool_minDuration..Min(Pool_maxDuration, MaxPoolDuration)

(* the draws of a batch that are explored: one duration for all ten tasks  *)
Pool_batchDraws == {[i \in 1..Pool_batchSize |-> d] : d \in Pool_durations}

Pool_initWorkers(workerCount) ==
    [i \in 1..workerCount |->
        [id |-> i, status |-> "idle", currentTask |-> NoThread, completedTasks |-> 0]]

(* the state once the mount effect has filled workers                      *)
Pool_state0 ==
    [isRunning |-> FALSE, isPaused |-> FALSE, workerCount |-> Pool_initialWorkerCount,
     taskQueue |-> <<>>, completedTasks |-> <<>>,
     workers |-> Pool_initWorkers(Pool_initialWorkerCount), logs |-> <<>>,
     taskCounter |-> 0, totalProcessed |-> 0,
     intervalRef |-> NoHandle, pauseRef |-> FALSE, timers |-> NoTimers]

Pool_addLog(logs, message) == AppendLog(logs, PoolLogKeep, message)

Pool_resetState(p) ==
    [p EXCEPT !.timers = IF p.intervalRef # NoHandle
                         THEN clearInterval(p.timers, p.intervalRef)
                         ELSE p.timers,
              !.isRunning = FALSE, !.isPaused = FALSE, !.pauseRef = FALSE,
              !.taskQueue = <<>>, !.completedTasks = <<>>, !.logs = <<>>,
              !.taskCounter = 0, !.totalProcessed = 0,
              !.workers = Pool_initWorkers(p.workerCount)]

Pool_newTask(id, duration) ==
    [id |-> id, duration |-> duration, status |-> "queued", assignedTo |-> NoThread,
     progress |-> 0]

Pool_addTaskState(p, duration) ==
    [p EXCEPT !.taskQueue = Append(@, Pool_newTask(p.taskCounter + 1, duration)),
              !.taskCounter = @ + 1,
              !.logs = Pool_addLog(@, "added")]

(* durations = the ten durations drawn, in order                           *)
Pool_addBatchTasksState(p, durations) ==
    [p EXCEPT !.taskQueue = @ \o [i \in 1..Pool_batchSize |->
                                     Pool_newTask(p.taskCounter + i, durations[i])],
              !.taskCounter = @ + Pool_batchSize,
              !.logs = Pool_addLog(@, "batch")]

(* newQueue.findIndex((t) => t.id === id); 0 for -1                        *)
Pool_findIndex(queue, id) ==
    IF \E i \in 1..Len(queue) : queue[i].id = id
    THEN CHOOSE i \in 1..Len(queue) :
           queue[i].id = id /\ \A j \in 1..(i - 1) : queue[j].id # id
    ELSE 0

(* find looking for any task that is not completed                         *)
Pool_nextQueuedOrProcessing(queue) ==
    IF Len(queue) > 0 THEN 1 ELSE 0

(* the index of newQueue.find((t) => t.status === "queued"); 0 for none    *)
Pool_nextQueued(queue) ==
    IF \E i \in 1..Len(queue) : queue[i].status = "queued"
    THEN CHOOSE i \in 1..Len(queue) :
           queue[i].status = "queued" /\ \A j \in 1..(i - 1) : queue[j].status # "queued"
    ELSE 0

Pool_filterOut(queue, id) ==
    SelectSeq(queue, LAMBDA t : t.id # id)

(* The body of newWorkers.forEach for worker w.  acc holds workers,        *)
(* newQueue, newCompleted, logs and totalProcessed.                        *)
Pool_processWorker(acc, w) ==
    LET worker == acc.workers[w]
        taskIndex == IF worker.status = "busy" /\ worker.currentTask # NoThread
                     THEN Pool_findIndex(acc.newQueue, worker.currentTask)
                     ELSE 0
        task == [acc.newQueue[taskIndex] EXCEPT !.progress = @ + 1]
        finished == taskIndex # 0 /\ ProgressDone(task.progress, task.duration)
        a1 == IF taskIndex = 0 THEN acc
              ELSE IF finished
              THEN [acc EXCEPT
                      !.newCompleted = Append(@, [task EXCEPT !.status = "completed"]),
                      !.newQueue = Pool_filterOut(@, task.id),
                      !.workers[w] = [worker EXCEPT !.status = "idle",
                                                    !.currentTask = NoThread,
                                                    !.completedTasks = @ + 1],
                      !.logs = Pool_addLog(@, "completed"),
                      !.totalProcessed = @ + 1]
              ELSE [acc EXCEPT !.newQueue[taskIndex] = task]
        next == Pool_nextQueued(a1.newQueue)
    IN IF a1.workers[w].status = "idle" /\ next # 0
       THEN [a1 EXCEPT !.newQueue[next] = [@ EXCEPT !.status = "processing",
                                                   !.assignedTo = a1.workers[w].id],
                       !.workers[w] = [@ EXCEPT !.status = "busy",
                                                !.currentTask = a1.newQueue[next].id],
                       !.logs = Pool_addLog(@, "started")]
       ELSE a1

RECURSIVE Pool_forEach(_, _)
Pool_forEach(acc, w) ==
    IF w > Len(acc.workers) THEN acc
    ELSE Pool_forEach(Pool_processWorker(acc, w), w + 1)

(* The interval callback of runSimulation.                                 *)
Pool_tickState(p) ==
    IF p.pauseRef THEN p
    ELSE
      LET acc == Pool_forEach([workers |-> p.workers, newQueue |-> p.taskQueue,
                               newCompleted |-> <<>>, logs |-> p.logs,
                               totalProcessed |-> p.totalProcessed], 1)
      IN [p EXCEPT !.workers = acc.workers,
                   !.taskQueue = acc.newQueue,
                   !.completedTasks = IF Len(acc.newCompleted) > 0
                                      THEN SliceLast(@ \o acc.newCompleted,
                                                     Pool_completedKeep)
                                      ELSE @,
                   !.logs = acc.logs,
                   !.totalProcessed = acc.totalProcessed]

Pool_runState(p) ==
    LET h == FreshHandle(p.timers, {p.intervalRef})
    IN [p EXCEPT !.isRunning = TRUE,
                 !.timers = setInterval(p.timers, h, [run |-> h]),
                 !.intervalRef = h]

(* setWorkerCount, then the effect on workerCount                          *)
Pool_setWorkerCountState(p, count) ==
    IF count = p.workerCount THEN p
    ELSE [p EXCEPT !.workerCount = count, !.workers = Pool_initWorkers(count)]

(* Start Pool rendered whatever isRunning is                               *)
Pool_canRunAlways(p) == TRUE

(* Start Pool is rendered only while not isRunning.                        *)
Pool_canRun(p) == ~p.isRunning

Pool_runSimulation ==
    /\ page = "thread-pool"
    /\ Pool_canRun(pool)
    /\ pool' = Pool_runState(pool)
    /\ UNCHANGED others_pool

Pool_reset ==
    /\ page = "thread-pool"
    /\ pool' = Pool_resetState(pool)
    /\ UNCHANGED others_pool

Pool_tick ==
    /\ page = "thread-pool"
    /\ \E h \in DOMAIN pool.timers : pool' = Pool_tickState(pool)
    /\ UNCHANGED others_pool

Pool_togglePause ==
    /\ page = "thread-pool"
    /\ pool.isRunning
    /\ pool' = [pool EXCEPT !.isPaused = ~pool.isPaused, !.pauseRef = ~pool.pauseRef]
    /\ UNCHANGED others_pool

(* The worker-count buttons are disabled while isRunning.                  *)
Pool_setWorkerCount ==
    /\ page = "thread-pool"
    /\ ~pool.isRunning
    /\ \E count \in Pool_workerCounts :
         /\ count <= MaxPoolWorkers
         /\ pool' = Pool_setWorkerCountState(pool, count)
    /\ UNCHANGED others_pool

(* Add Task and Add 10 Tasks are disabled unless isRunning and not paused. *)
Pool_addTask ==
    /\ page = "thread-pool"
    /\ pool.isRunning /\ ~pool.isPaused
    /\ pool.taskCounter < MaxPoolSingles
    /\ \E duration \in Pool_durations : pool' = Pool_addTaskState(pool, duration)
    /\ UNCHANGED others_pool

Pool_addBatchTasks ==
    /\ page = "thread-pool"
    /\ pool.isRunning /\ ~pool.isPaused
    /\ pool.taskCounter <= MaxPoolSingles
    /\ \E durations \in Pool_batchDraws :
         pool' = Pool_addBatchTasksState(pool, durations)
    /\ UNCHANGED others_pool

(* =========================== producer-consumer ========================= *)
(* src/app/producer-consumer/page.tsx.  The interval callback keeps its    *)
(* own localItemCounter, localQueue, localProduced and localConsumed; they *)
(* are part of the interval's closure record.  Every pending timer holds   *)
(* `due', the time in ms until it fires; the timer that fires is one with  *)
(* the least due, and that time then elapses for all the others.           *)

ProdconsLogKeep == 12

BUFFER_SIZE == 5

Prodcons_period == 800

Prodcons_workDelay == 400

Prodcons_blockedDelay == 600

(* bound of the model: items one run produces                              *)
MaxProdconsItems == 6

Prodcons_initThreads ==
    << [id |-> 1, status |-> "idle", currentItem |-> NoThread],
       [id |-> 2, status |-> "idle", currentItem |-> NoThread] >>

Prodcons_state0 ==
    [isRunning |-> FALSE, isPaused |-> FALSE, queue |-> <<>>, produced |-> 0,
     consumed |-> 0, logs |-> <<>>, itemCounter |-> 0,
     producers |-> Prodcons_initThreads, consumers |-> Prodcons_initThreads,
     intervalRef |-> NoHandle, pauseRef |-> FALSE, timers |-> NoTimers,
     timeouts |-> {}]

(* Only the number of entries of this log is modelled: every entry is     *)
(* the same string, whatever its type and text.                            *)
Prodcons_addLog(logs, type) == AppendLog(logs, ProdconsLogKeep, "entry")

(* reset without clearInterval                                             *)
Prodcons_resetStateLeavingInterval(p) ==
    [p EXCEPT !.timeouts = {[t EXCEPT !.cancelled = TRUE] : t \in p.timeouts},
              !.isRunning = FALSE, !.isPaused = FALSE, !.pauseRef = FALSE,
              !.queue = <<>>, !.produced = 0, !.consumed = 0, !.logs = <<>>,
              !.itemCounter = 0,
              !.producers = Prodcons_initThreads,
              !.consumers = Prodcons_initThreads]

(* reset clears the interval; it clears no timeout.  The timeouts left     *)
(* pending are those of a cancelled run: `cancelled' records it.           *)
Prodcons_resetState(p) ==
    [p EXCEPT !.timers = IF p.intervalRef # NoHandle
                         THEN clearInterval(p.timers, p.intervalRef)
                         ELSE p.timers,
              !.timeouts = {[t EXCEPT !.cancelled = TRUE] : t \in p.timeouts},
              !.isRunning = FALSE, !.isPaused = FALSE, !.pauseRef = FALSE,
              !.queue = <<>>, !.produced = 0, !.consumed = 0, !.logs = <<>>,
              !.itemCounter = 0,
              !.producers = Prodcons_initThreads,
              !.consumers = Prodcons_initThreads]

(* the times until the pending timers fire                                 *)
Prodcons_dues(p) ==
    {p.timers[h].due : h \in DOMAIN p.timers} \cup {t.due : t \in p.timeouts}

Prodcons_isNext(p, due) == \A d \in Prodcons_dues(p) : due <= d

(* d ms pass                                                               *)
Prodcons_elapse(p, d) ==
    [p EXCEPT !.timers = [h \in DOMAIN p.timers |-> [p.timers[h] EXCEPT !.due = @ - d]],
              !.timeouts = {[t EXCEPT !.due = @ - d] : t \in p.timeouts}]

(* prev.map((p) => p.id === id ? {...p, status, currentItem} : p)          *)
Prodcons_setThread(threads, id, status, currentItem) ==
    [i \in 1..Len(threads) |->
        IF threads[i].id = id
        THEN [threads[i] EXCEPT !.status = status, !.currentItem = currentItem]
        ELSE threads[i]]

Prodcons_setStatus(threads, id, status) ==
    [i \in 1..Len(threads) |->
        IF threads[i].id = id THEN [threads[i] EXCEPT !.status = status]
        ELSE threads[i]]

Prodcons_unblock(threads, id) ==
    [i \in 1..Len(threads) |->
        IF threads[i].id = id /\ threads[i].status = "blocked"
        THEN [threads[i] EXCEPT !.status = "idle"]
        ELSE threads[i]]

Prodcons_setTimeout(timeouts, role, id, ifBlocked, delay) ==
    timeouts \cup {[role |-> role, id |-> id, ifBlocked |-> ifBlocked, due |-> delay,
                    cancelled |-> FALSE]}

(* the producer action testing localQueue.length <= BUFFER_SIZE            *)
Prodcons_produceUpToSizeInclusive(p, h, producerId) ==
    LET c == p.timers[h]
    IN IF Len(c.localQueue) <= BUFFER_SIZE
       THEN LET id == c.localItemCounter + 1
                newQueue == Append(c.localQueue, [id |-> id, producedBy |-> producerId])
            IN [p EXCEPT
                 !.timers[h] = [c EXCEPT !.localItemCounter = id,
                                         !.localQueue = newQueue,
                                         !.localProduced = @ + 1],
                 !.queue = newQueue,
                 !.produced = c.localProduced + 1,
                 !.itemCounter = id,
                 !.producers = Prodcons_setThread(@, producerId, "working", id),
                 !.logs = Prodcons_addLog(@, "produce"),
                 !.timeouts = Prodcons_setTimeout(@, "producer", producerId, FALSE,
                                                  Prodcons_workDelay)]
       ELSE [p EXCEPT
                 !.producers = Prodcons_setStatus(@, producerId, "blocked"),
                 !.logs = Prodcons_addLog(@, "blocked"),
                 !.timeouts = Prodcons_setTimeout(@, "producer", producerId, TRUE,
                                                  Prodcons_blockedDelay)]

(* the producer action of a tick for the interval h                        *)
Prodcons_produce(p, h, producerId) ==
    LET c == p.timers[h]
    IN IF Len(c.localQueue) < BUFFER_SIZE
       THEN LET id == c.localItemCounter + 1
                newQueue == Append(c.localQueue, [id |-> id, producedBy |-> producerId])
            IN [p EXCEPT
                 !.timers[h] = [c EXCEPT !.localItemCounter = id,
                                         !.localQueue = newQueue,
                                         !.localProduced = @ + 1],
                 !.queue = newQueue,
                 !.produced = c.localProduced + 1,
                 !.itemCounter = id,
                 !.producers = Prodcons_setThread(@, producerId, "working", id),
                 !.logs = Prodcons_addLog(@, "produce"),
                 !.timeouts = Prodcons_setTimeout(@, "producer", producerId, FALSE,
                                                  Prodcons_workDelay)]
       ELSE [p EXCEPT
                 !.producers = Prodcons_setStatus(@, producerId, "blocked"),
                 !.logs = Prodcons_addLog(@, "blocked"),
                 !.timeouts = Prodcons_setTimeout(@, "producer", producerId, TRUE,
                                                  Prodcons_blockedDelay)]

(* the consumer action of a tick for the interval h                        *)
Prodcons_consume(p, h, consumerId) ==
    LET c == p.timers[h]
    IN IF Len(c.localQueue) > 0
       THEN LET item == Head(c.localQueue)
                newQueue == Tail(c.localQueue)
            IN [p EXCEPT
                 !.timers[h] = [c EXCEPT !.localQueue = newQueue,
                                         !.localConsumed = @ + 1],
                 !.queue = newQueue,
                 !.consumed = c.localConsumed + 1,
                 !.consumers = Prodcons_setThread(@, consumerId, "working", item.id),
                 !.logs = Prodcons_addLog(@, "consume"),
                 !.timeouts = Prodcons_setTimeout(@, "consumer", consumerId, FALSE,
                                                  Prodcons_workDelay)]
       ELSE [p EXCEPT
                 !.consumers = Prodcons_setStatus(@, consumerId, "blocked"),
                 !.logs = Prodcons_addLog(@, "blocked"),
                 !.timeouts = Prodcons_setTimeout(@, "consumer", consumerId, TRUE,
                                                  Prodcons_blockedDelay)]

(* The interval callback for the live interval h.  producerId and          *)
(* consumerId are the threads drawn, 0 when the draw skips the action.     *)
Prodcons_tickState(p, h, producerId, consumerId) ==
    LET p0 == Prodcons_elapse(p, p.timers[h].due)
        p1 == [p0 EXCEPT !.timers[h].due = Prodcons_period]
        p2 == IF producerId # 0 THEN Prodcons_produce(p1, h, producerId) ELSE p1
    IN IF p.pauseRef THEN p1
       ELSE IF consumerId # 0 THEN Prodcons_consume(p2, h, consumerId) ELSE p2

(* The setTimeout callback t.                                              *)
Prodcons_timeoutState(p, t) ==
    LET p0 == Prodcons_elapse(p, t.due)
        p1 == [p0 EXCEPT !.timeouts = @ \ {[t EXCEPT !.due = 0]}]
    IN IF t.role = "producer"
       THEN [p1 EXCEPT !.producers = IF t.ifBlocked THEN Prodcons_unblock(@, t.id)
                                     ELSE Prodcons_setThread(@, t.id, "idle", NoThread)]
       ELSE [p1 EXCEPT !.consumers = IF t.ifBlocked THEN Prodcons_unblock(@, t.id)
                                     ELSE Prodcons_setThread(@, t.id, "idle", NoThread)]

Prodcons_runState(p) ==
    LET r == Prodcons_resetState(p)
        h == FreshHandle(r.timers, {r.intervalRef})
    IN [r EXCEPT !.isRunning = TRUE,
                 !.timers = setInterval(r.timers, h,
                     [localItemCounter |-> 0, localQueue |-> <<>>,
                      localProduced |-> 0, localConsumed |-> 0,
                      due |-> Prodcons_period]),
                 !.intervalRef = h]

(* Start is rendered only while not isRunning.                             *)
Prodcons_canRun(p) == ~p.isRunning

Prodcons_runSimulation ==
    /\ page = "producer-consumer"
    /\ Prodcons_canRun(prodcons)
    /\ prodcons' = Prodcons_runState(prodcons)
    /\ UNCHANGED others_prodcons

Prodcons_reset ==
    /\ page = "producer-consumer"
    /\ prodcons' = Prodcons_resetState(prodcons)
    /\ UNCHANGED others_prodcons

Prodcons_tick ==
    /\ page = "producer-consumer"
    /\ \E h \in DOMAIN prodcons.timers :
         \E producerId \in 0..2 :
           \E consumerId \in 0..2 :
             /\ Prodcons_isNext(prodcons, prodcons.timers[h].due)
             /\ (producerId # 0 /\ Len(prodcons.timers[h].localQueue) < BUFFER_SIZE)
                  => prodcons.timers[h].localItemCounter < MaxProdconsItems
             /\ prodcons' = Prodcons_tickState(prodcons, h, producerId, consumerId)
    /\ UNCHANGED others_prodcons

Prodcons_timeout ==
    /\ page = "producer-consumer"
    /\ \E t \in prodcons.timeouts :
         /\ Prodcons_isNext(prodcons, t.due)
         /\ prodcons' = Prodcons_timeoutState(prodcons, t)
    /\ UNCHANGED others_prodcons

Prodcons_togglePause ==
    /\ page = "producer-consumer"
    /\ prodcons.isRunning
    /\ prodcons' = [prodcons EXCEPT !.isPaused = ~prodcons.isPaused,
                                    !.pauseRef = ~prodcons.pauseRef]
    /\ UNCHANGED others_prodcons

(* ============================= reader-writer =========================== *)
(* src/unnamed/part_002, ReaderWriterDemo.  runSimulation does not reset:  *)
(* its interval callback, and the addReader and addWriter it calls, read   *)
(* activeWriter, waitingWriters, activeReaders, threadCounter and          *)
(* dataVersion of the render in which Start was clicked.  sharedData holds *)
(* the version in "Modified v<n>", 0 for "Initial Value".                  *)

RwLogKeep == 12

Rw_promoteBatch == 3

Rw_initialVersion == 1

Rw_initialData == 0

(* bound of the model: threads added to one run                            *)
MaxRwThreads == 5

Rw_thread(id, type, status) == [id |-> id, type |-> type, status |-> status]

(* null of activeWriter                                                    *)
Rw_noWriter == Rw_thread(NoThread, "writer", "idle")

Rw_state0 ==
    [isRunning |-> FALSE, isPaused |-> FALSE, activeReaders |-> <<>>,
     activeWriter |-> Rw_noWriter, waitingReaders |-> <<>>, waitingWriters |-> <<>>,
     completedReads |-> 0, completedWrites |-> 0, logs |-> <<>>,
     threadCounter |-> 0, sharedData |-> Rw_initialData,
     dataVersion |-> Rw_initialVersion,
     intervalRef |-> NoHandle, pauseRef |-> FALSE, timers |-> NoTimers]

(* Only the number of entries of this log is modelled.                     *)
Rw_addLog(logs, type) == AppendLog(logs, RwLogKeep, "entry")

RECURSIVE Rw_logN(_, _, _)
Rw_logN(logs, n, type) ==
    IF n = 0 THEN logs ELSE Rw_logN(Rw_addLog(logs, type), n - 1, type)

Rw_resetState(r) ==
    [r EXCEPT !.timers = IF r.intervalRef # NoHandle
                         THEN clearInterval(r.timers, r.intervalRef)
                         ELSE r.timers,
              !.isRunning = FALSE, !.isPaused = FALSE, !.pauseRef = FALSE,
              !.activeReaders = <<>>, !.activeWriter = Rw_noWriter,
              !.waitingReaders = <<>>, !.waitingWriters = <<>>,
              !.completedReads = 0, !.completedWrites = 0, !.logs = <<>>,
              !.threadCounter = 0, !.sharedData = Rw_initialData,
              !.dataVersion = Rw_initialVersion]

Rw_activate(t) == [t EXCEPT !.status = "active"]

(* addReader as created by the render c; r is the latest state             *)
Rw_addReaderState(r, c) ==
    LET newThread == Rw_thread(c.threadCounter + 1, "reader", "waiting")
        r1 == [r EXCEPT !.threadCounter = @ + 1]
    IN IF c.activeWriter # Rw_noWriter
       THEN [r1 EXCEPT !.waitingReaders = Append(@, newThread),
                       !.logs = Rw_addLog(@, "wait")]
       ELSE [r1 EXCEPT !.activeReaders = Append(@, Rw_activate(newThread)),
                       !.logs = Rw_addLog(@, "read")]

(* addWriter as created by the render c; r is the latest state             *)
Rw_addWriterState(r, c) ==
    LET newThread == Rw_thread(c.threadCounter + 1, "writer", "waiting")
        r1 == [r EXCEPT !.threadCounter = @ + 1]
    IN IF c.activeWriter # Rw_noWriter \/ Len(c.activeReaders) > 0
       THEN [r1 EXCEPT !.waitingWriters = Append(@, newThread),
                       !.logs = Rw_addLog(@, "wait")]
       ELSE [r1 EXCEPT !.activeWriter = Rw_activate(newThread),
                       !.logs = Rw_addLog(@, "write")]

(* what a render's closures read                                           *)
Rw_render(r) ==
    [activeWriter |-> r.activeWriter, waitingWriters |-> r.waitingWriters,
     activeReaders |-> r.activeReaders, threadCounter |-> r.threadCounter,
     dataVersion |-> r.dataVersion]

(* setActiveReaders: completed = the indexes whose draw exceeds 0.7        *)
Rw_processReaders(r, completed) ==
    [r EXCEPT !.activeReaders = SelectIndexes(@, (1..Len(@)) \ completed, 1),
              !.logs = Rw_logN(@, Cardinality(completed), "read"),
              !.completedReads = @ + Cardinality(completed)]

(* if (activeWriter && Math.random() > 0.6)                                *)
Rw_processWriter(r, c, writerDone) ==
    IF c.activeWriter # Rw_noWriter /\ writerDone
    THEN [r EXCEPT !.logs = Rw_addLog(@, "write"),
                   !.dataVersion = @ + 1,
                   !.sharedData = c.dataVersion + 1,
                   !.completedWrites = @ + 1,
                   !.activeWriter = Rw_noWriter]
    ELSE r

(* the setActiveWriter updater and the updaters it nests                   *)
Rw_promoteWriter(r, c) ==
    IF r.activeWriter # Rw_noWriter THEN r
    ELSE IF Len(c.waitingWriters) > 0 /\ Len(r.activeReaders) = 0
         THEN IF Len(r.waitingWriters) > 0
              THEN [r EXCEPT !.logs = Rw_addLog(@, "write"),
                             !.activeWriter = Rw_activate(Head(r.waitingWriters)),
                             !.waitingWriters = Tail(@)]
              ELSE r
         ELSE r

(* the setWaitingReaders updater                                           *)
Rw_promoteReaders(r, c) ==
    LET prev == r.waitingReaders
        k == Min(Rw_promoteBatch, Len(prev))
        promoted == [i \in 1..k |-> Rw_activate(prev[i])]
    IN IF Len(prev) = 0 \/ c.activeWriter # Rw_noWriter \/ Len(c.waitingWriters) > 0
       THEN r
       ELSE [r EXCEPT !.logs = Rw_logN(@, k, "read"),
                      !.activeReaders = @ \o promoted,
                      !.waitingReaders = SubSeq(prev, k + 1, Len(prev))]

(* The interval callback for the live interval h.  add is "reader" or      *)
(* "writer" when the draws add a thread, "none" otherwise.                 *)
Rw_tickState(r, h, completed, writerDone, add) ==
    IF r.pauseRef THEN r
    ELSE
      LET c == r.timers[h]
          r1 == Rw_processReaders(r, completed)
          r2 == Rw_processWriter(r1, c, writerDone)
          r3 == Rw_promoteWriter(r2, c)
          r4 == Rw_promoteReaders(r3, c)
      IN CASE add = "reader" -> Rw_addReaderState(r4, c)
           [] add = "writer" -> Rw_addWriterState(r4, c)
           [] OTHER -> r4

Rw_runState(r) ==
    LET h == FreshHandle(r.timers, {r.intervalRef})
    IN [r EXCEPT !.isRunning = TRUE,
                 !.timers = setInterval(r.timers, h, Rw_render(r)),
                 !.intervalRef = h]

(* Start is rendered only while not isRunning.                             *)
Rw_canRun(r) == ~r.isRunning

Rw_runSimulation ==
    /\ page = "reader-writer"
    /\ Rw_canRun(rw)
    /\ rw' = Rw_runState(rw)
    /\ UNCHANGED others_rw

Rw_reset ==
    /\ page = "reader-writer"
    /\ rw' = Rw_resetState(rw)
    /\ UNCHANGED others_rw

Rw_tick ==
    /\ page = "reader-writer"
    /\ \E h \in DOMAIN rw.timers :
         \E completed \in SUBSET (1..Len(rw.activeReaders)) :
           \E writerDone \in BOOLEAN :
             \E add \in {"none", "reader", "writer"} :
               /\ add # "none" => rw.threadCounter < MaxRwThreads
               /\ rw' = Rw_tickState(rw, h, completed, writerDone, add)
    /\ UNCHANGED others_rw

Rw_togglePause ==
    /\ page = "reader-writer"
    /\ rw.isRunning
    /\ rw' = [rw EXCEPT !.isPaused = ~rw.isPaused, !.pauseRef = ~rw.pauseRef]
    /\ UNCHANGED others_rw

(* Add Reader and Add Writer are disabled unless isRunning and not paused. *)
Rw_addReader ==
    /\ page = "reader-writer"
    /\ rw.isRunning /\ ~rw.isPaused
    /\ rw.threadCounter < MaxRwThreads
    /\ rw' = Rw_addReaderState(rw, Rw_render(rw))
    /\ UNCHANGED others_rw

Rw_addWriter ==
    /\ page = "reader-writer"
    /\ rw.isRunning /\ ~rw.isPaused
    /\ rw.threadCounter < MaxRwThreads
    /\ rw' = Rw_addWriterState(rw, Rw_render(rw))
    /\ UNCHANGED others_rw

(* ============================ specification ============================ *)

Pages == {"deadlock", "memory-ordering", "race-condition", "locks-cas",
          "async-vs-threads", "starvation", "semaphore", "thread-pool",
          "producer-consumer", "reader-writer"}

Init ==
    /\ page \in Pages
    /\ deadlock = Deadlock_state0
    /\ memord = Memory_state0
    /\ race = Race_state0
    /\ locks = Locks_state0
    /\ async = Async_state0
    /\ starv = Starvation_state0
    /\ sem = Semaphore_state0
    /\ pool = Pool_state0
    /\ prodcons = Prodcons_state0
    /\ rw = Rw_state0

Next ==
    \/ Deadlock_runDeadlockScenario
    \/ Deadlock_reset
    \/ Deadlock_tick
    \/ Deadlock_toggleExplanation
    \/ Memory_runBrokenScenario
    \/ Memory_runFixedScenario
    \/ Memory_reset
    \/ Memory_tick
    \/ Race_runBoth
    \/ Race_resetAll
    \/ Race_unsafeTick
    \/ Race_atomicTick
    \/ Locks_startLockDemo
    \/ Locks_resetLockDemo
    \/ Locks_lockTick
    \/ Locks_startCASDemo
    \/ Locks_resetCASDemo
    \/ Locks_casTick
    \/ Locks_toggleExplanation
    \/ Async_runDemo
    \/ Async_reset
    \/ Async_tick
    \/ Starvation_runSimulation
    \/ Starvation_reset
    \/ Starvation_tick
    \/ Starvation_togglePause
    \/ Starvation_setScenario
    \/ Starvation_toggleExplanation
    \/ Semaphore_runSimulation
    \/ Semaphore_reset
    \/ Semaphore_tick
    \/ Semaphore_togglePause
    \/ Semaphore_updateMaxPermits
    \/ Semaphore_addRequest
    \/ Semaphore_setAutoSpawn
    \/ Pool_runSimulation
    \/ Pool_reset
    \/ Pool_tick
    \/ Pool_togglePause
    \/ Pool_setWorkerCount
    \/ Pool_addTask
    \/ Pool_addBatchTasks
    \/ Prodcons_runSimulation
    \/ Prodcons_reset
    \/ Prodcons_tick
    \/ Prodcons_timeout
    \/ Prodcons_togglePause
    \/ Rw_runSimulation
    \/ Rw_reset
    \/ Rw_tick
    \/ Rw_togglePause
    \/ Rw_addReader
    \/ Rw_addWriter

Spec == Init /\ [][Next]_vars

(* ================================ claims =============================== *)

(* The fields of a page's state that are not timer bookkeeping: the        *)
(* useState fields and the pause flag.  showExplanation, the toggle of the *)
(* explanation panel, is not a field of the demo.                          *)
Untracked ==
    {"showExplanation", "intervalRef", "timers", "timeouts",
     "unsafeInterval", "atomicInterval", "unsafeTimers", "atomicTimers",
     "lockInterval", "casInterval", "lockTimers", "casTimers"}

Fields(state) == [k \in (DOMAIN state) \ Untracked |-> state[k]]

(* ---------------------------------- C1 --------------------------------- *)

(* C1 as stated: on every page a reset step leaves every tracked field at  *)
(* the value it had at construction.                                       *)
C1_ResetRestoresConstruction ==
    [][ /\ Deadlock_reset => Fields(deadlock') = Fields(Deadlock_state0)
        /\ Memory_reset => Fields(memord') = Fields(Memory_state0)
        /\ Race_resetAll => Fields(race') = Fields(Race_state0)
        /\ Locks_resetLockDemo => locks'.lockDemo = Locks_lockDemo0
        /\ Locks_resetCASDemo => locks'.casDemo = Locks_casDemo0
        /\ Async_reset => Fields(async') = Fields(Async_state0)
        /\ Starvation_reset => Fields(starv') = Fields(Starvation_state0)
        /\ Semaphore_reset => Fields(sem') = Fields(Semaphore_state0)
        /\ Pool_reset => Fields(pool') = Fields(Pool_state0)
        /\ Prodcons_reset => Fields(prodcons') = Fields(Prodcons_state0)
        /\ Rw_reset => Fields(rw') = Fields(Rw_state0) ]_vars

(* C1, amended: a reset step leaves every tracked field at its             *)
(* construction value, except that it keeps the configuration the user     *)
(* chose (scenario; maxPermits and autoSpawn, with availablePermits equal  *)
(* to maxPermits; workerCount, with that many idle workers) and leaves the *)
(* starvation page with its five initial threads instead of none.          *)
C1_ResetKeepsConfiguration ==
    [][ /\ Deadlock_reset => Fields(deadlock') = Fields(Deadlock_state0)
        /\ Memory_reset =>
             Fields(memord') = Fields([Memory_state0 EXCEPT !.scenario = memord.scenario])
        /\ Race_resetAll => Fields(race') = Fields(Race_state0)
        /\ Locks_resetLockDemo => locks'.lockDemo = Locks_lockDemo0
        /\ Locks_resetCASDemo => locks'.casDemo = Locks_casDemo0
        /\ Async_reset => Fields(async') = Fields(Async_state0)
        /\ Starvation_reset =>
             Fields(starv') = Fields([Starvation_state0 EXCEPT
                                        !.scenario = starv.scenario,
                                        !.threads = Starvation_initThreads])
        /\ Semaphore_reset =>
             Fields(sem') = Fields([Semaphore_state0 EXCEPT
                                      !.maxPermits = sem.maxPermits,
                                      !.availablePermits = sem.maxPermits,
                                      !.autoSpawn = sem.autoSpawn])
        /\ Pool_reset =>
             Fields(pool') = Fields([Pool_state0 EXCEPT
                                       !.workerCount = pool.workerCount,
                                       !.workers = Pool_initWorkers(pool.workerCount)])
        /\ Prodcons_reset => Fields(prodcons') = Fields(Prodcons_state0)
        /\ Rw_reset => Fields(rw') = Fields(Rw_state0) ]_vars

(* A reset has acted on a run of the fair scenario: the run is cancelled,  *)
(* the threads are the initial five and the scenario is still "fair".      *)
C1_Witness ==
    /\ starv.intervalRef # NoHandle
    /\ ~starv.isRunning
    /\ starv.scenario = "fair"
    /\ starv.threads = Starvation_initThreads
    /\ starv.tick = 0

(* ---------------------------------- C2 --------------------------------- *)

(* C2 as stated: on the pages with pause, a callback that fires while the  *)
(* pause flag is set (an interval tick, or a setTimeout callback of an     *)
(* earlier tick) changes no tracked field.                                 *)
C2_PausedCallbacksChangeNothing ==
    [][ /\ (starv.isPaused /\ Starvation_tick) => Fields(starv') = Fields(starv)
        /\ (sem.isPaused /\ Semaphore_tick) => Fields(sem') = Fields(sem)
        /\ (pool.isPaused /\ Pool_tick) => Fields(pool') = Fields(pool)
        /\ (prodcons.isPaused /\ (Prodcons_tick \/ Prodcons_timeout))
             => Fields(prodcons') = Fields(prodcons)
        /\ (rw.isPaused /\ Rw_tick) => Fields(rw') = Fields(rw) ]_vars

(* ---------------------------------- C3 --------------------------------- *)

(* C3: on every page, each timer ref has at most one live interval, and    *)
(* the live interval is the one the ref holds.                             *)
C3_OneIntervalPerRef ==
    /\ \A p \in {deadlock, memord, async, starv, sem, pool, prodcons, rw} :
         /\ Cardinality(DOMAIN p.timers) <= 1
         /\ DOMAIN p.timers \subseteq {p.intervalRef}
    /\ Cardinality(DOMAIN race.unsafeTimers) <= 1
    /\ DOMAIN race.unsafeTimers \subseteq {race.unsafeInterval}
    /\ Cardinality(DOMAIN race.atomicTimers) <= 1
    /\ DOMAIN race.atomicTimers \subseteq {race.atomicInterval}
    /\ Cardinality(DOMAIN locks.lockTimers) <= 1
    /\ DOMAIN locks.lockTimers \subseteq {locks.lockInterval}
    /\ Cardinality(DOMAIN locks.casTimers) <= 1
    /\ DOMAIN locks.casTimers \subseteq {locks.casInterval}

(* The thread pool runs its second interval: the ref holds the second      *)
(* handle and that interval alone is live.                                 *)
C3_Witness ==
    /\ pool.isRunning
    /\ pool.intervalRef = 2
    /\ DOMAIN pool.timers = {2}

(* ---------------------------------- C4 --------------------------------- *)

(* The state in which a run ends when its ticks fire with no user action   *)
(* in between, for each fixed-script demo.                                 *)
RECURSIVE Deadlock_runToEnd(_)
Deadlock_runToEnd(d) ==
    IF DOMAIN d.timers = {} THEN d
    ELSE Deadlock_runToEnd(Deadlock_tickState(d, d.intervalRef))

RECURSIVE Memory_runToEnd(_)
Memory_runToEnd(m) ==
    IF DOMAIN m.timers = {} THEN m
    ELSE Memory_runToEnd(Memory_tickState(m, m.intervalRef))

RECURSIVE Race_runToEnd(_)
Race_runToEnd(r) ==
    IF DOMAIN r.unsafeTimers # {}
    THEN Race_runToEnd(Race_unsafeTickState(r, r.unsafeInterval))
    ELSE IF DOMAIN r.atomicTimers # {}
         THEN Race_runToEnd(Race_atomicTickState(r, r.atomicInterval, TRUE))
         ELSE r

RECURSIVE Locks_lockRunToEnd(_)
Locks_lockRunToEnd(s) ==
    IF DOMAIN s.lockTimers = {} THEN s
    ELSE Locks_lockRunToEnd(Locks_lockTickState(s, s.lockInterval))

RECURSIVE Locks_casRunToEnd(_)
Locks_casRunToEnd(s) ==
    IF DOMAIN s.casTimers = {} THEN s
    ELSE Locks_casRunToEnd(Locks_casTickState(s, s.casInterval))

RECURSIVE Async_runToEnd(_)
Async_runToEnd(a) ==
    IF DOMAIN a.timers = {} THEN a
    ELSE Async_runToEnd(Async_tickState(a, a.intervalRef))

(* The fields of the race-condition page that its scripts determine: the   *)
(* result shown per thread of the atomic pane also depends on when React   *)
(* evaluates the updater, so only the thread's step is kept.               *)
Race_scripted(r) ==
    [Fields(r) EXCEPT !.atomicThreads = [i \in 1..3 |-> r.atomicThreads[i].step]]

(* C4 as stated: whenever a run of a fixed-script demo has stopped (no     *)
(* interval is live and the demo is not in its reset state), the demo is   *)
(* in the state in which the same run ends on a fresh page.                *)
C4_SameTerminalState ==
    /\ (DOMAIN deadlock.timers = {}
          /\ Fields(deadlock) # Fields(Deadlock_resetState(deadlock)))
         => Fields(deadlock)
              = Fields(Deadlock_runToEnd(Deadlock_runState(Deadlock_state0)))
    /\ (DOMAIN memord.timers = {}
          /\ Fields(memord) # Fields(Memory_resetState(memord)))
         => Fields(memord)
              = Fields(Memory_runToEnd(Memory_runState(Memory_state0, memord.scenario)))
    /\ (DOMAIN race.unsafeTimers = {} /\ DOMAIN race.atomicTimers = {}
          /\ Fields(race) # Fields(Race_resetAllState(race)))
         => Race_scripted(race)
              = Race_scripted(Race_runToEnd(Race_runAtomicState(Race_runUnsafeState(Race_state0))))
    /\ (DOMAIN locks.lockTimers = {} /\ locks.lockDemo # Locks_lockDemo0)
         => locks.lockDemo
              = Locks_lockRunToEnd(Locks_startLockState(Locks_state0)).lockDemo
    /\ (DOMAIN locks.casTimers = {} /\ locks.casDemo # Locks_casDemo0)
         => locks.casDemo
              = Locks_casRunToEnd(Locks_startCASState(Locks_state0)).casDemo
    /\ (DOMAIN async.timers = {}
          /\ Fields(async) # Fields(Async_resetState(async)))
         => Fields(async)
              = Fields(Async_runToEnd(Async_runDemoState(Async_state0)))

(* ---------------------------------- C5 --------------------------------- *)

C5_Terminal(d) ==
    /\ d.step = 7
    /\ d.isDeadlocked
    /\ ~d.isRunning
    /\ \A i \in 1..2 : d.threads[i].status = "deadlocked"
    /\ d.threads[1].holdsLock = "lock1" /\ d.threads[1].wantsLock = "lock2"
    /\ d.threads[2].holdsLock = "lock2" /\ d.threads[2].wantsLock = "lock1"
    /\ d.locks["lock1"] = 1 /\ d.locks["lock2"] = 2

(* C5: once the interval of runDeadlockScenario has fired 7 times the      *)
(* deadlock demo is in its terminal state (step 7, deadlocked, not         *)
(* running, A holds lock1 and wants lock2, B holds lock2 and wants lock1,  *)
(* each lock held by its thread), and a tick fired from then on changes    *)
(* no tracked field.                                                       *)
C5_DeadlockTerminal ==
    /\ [](\A h \in DOMAIN deadlock.timers :
            deadlock.timers[h].currentStep = 7 => C5_Terminal(deadlock))
    /\ [][ ((\E h \in DOMAIN deadlock.timers : deadlock.timers[h].currentStep >= 7)
              /\ Deadlock_tick)
             => (C5_Terminal(deadlock') /\ Fields(deadlock') = Fields(deadlock)) ]_vars

(* The eighth tick has fired: the demo is in its terminal state and no     *)
(* interval is live.                                                       *)
C5_Witness ==
    /\ C5_Terminal(deadlock)
    /\ deadlock.intervalRef # NoHandle
    /\ DOMAIN deadlock.timers = {}

(* ---------------------------------- C6 --------------------------------- *)

(* C6 as stated: in the list-driven demos no interval is live while        *)
(* isRunning is false.                                                     *)
C6_NoTimerUnlessRunning ==
    /\ DOMAIN deadlock.timers # {} => deadlock.isRunning
    /\ DOMAIN memord.timers # {} => memord.isRunning

(* C6, amended: the tick that executes the last step leaves the interval   *)
(* live; the next tick clears it and changes no tracked field.  So an      *)
(* interval is live while isRunning is false only between those two        *)
(* ticks, with the step index at the list length.                          *)
C6_TimerClearedOneTickLater ==
    /\ [](/\ \A h \in DOMAIN deadlock.timers :
               /\ deadlock.timers[h].currentStep <= Deadlock_stepCount
               /\ deadlock.isRunning <=> deadlock.timers[h].currentStep < Deadlock_stepCount
          /\ \A h \in DOMAIN memord.timers :
               /\ memord.timers[h].currentStep <= Memory_stepCount
               /\ memord.isRunning <=> memord.timers[h].currentStep < Memory_stepCount)
    /\ [][ /\ Deadlock_tick =>
                \A h \in DOMAIN deadlock.timers :
                  IF deadlock.timers[h].currentStep < Deadlock_stepCount
                  THEN h \in DOMAIN deadlock'.timers
                  ELSE /\ DOMAIN deadlock'.timers = {}
                       /\ Fields(deadlock') = Fields(deadlock)
           /\ Memory_tick =>
                \A h \in DOMAIN memord.timers :
                  IF memord.timers[h].currentStep < Memory_stepCount
                  THEN h \in DOMAIN memord'.timers
                  ELSE /\ DOMAIN memord'.timers = {}
                       /\ Fields(memord') = Fields(memord) ]_vars

(* The last step of the deadlock list has run and its interval is still    *)
(* live.                                                                   *)
C6_Witness ==
    /\ ~deadlock.isRunning
    /\ deadlock.step = Deadlock_stepCount
    /\ \E h \in DOMAIN deadlock.timers :
         deadlock.timers[h].currentStep = Deadlock_stepCount

(* ---------------------------------- C7 --------------------------------- *)

(* C7 as stated: no log holds more entries than the count its addLog       *)
(* slices to.                                                              *)
C7_LogWithinRetention ==
    /\ Len(deadlock.logs) <= DeadlockLogKeep
    /\ Len(async.logs) <= AsyncLogKeep
    /\ Len(starv.logs) <= StarvationLogKeep
    /\ Len(sem.logs) <= SemaphoreLogKeep
    /\ Len(prodcons.logs) <= ProdconsLogKeep
    /\ Len(memord.logs) <= MemoryLogKeep
    /\ Len(rw.logs) <= RwLogKeep
    /\ Len(pool.logs) <= PoolLogKeep

(* C7, amended: addLog keeps the last N entries and appends one, so a log  *)
(* holds at most N + 1 entries; no log exceeds 16.                         *)
C7_LogWithinRetentionPlusOne ==
    /\ Len(deadlock.logs) <= DeadlockLogKeep + 1
    /\ Len(async.logs) <= AsyncLogKeep + 1
    /\ Len(starv.logs) <= StarvationLogKeep + 1
    /\ Len(sem.logs) <= SemaphoreLogKeep + 1
    /\ Len(prodcons.logs) <= ProdconsLogKeep + 1
    /\ Len(memord.logs) <= MemoryLogKeep + 1
    /\ Len(rw.logs) <= RwLogKeep + 1
    /\ Len(pool.logs) <= PoolLogKeep + 1
    /\ \A p \in {deadlock, async, starv, sem, prodcons, memord, rw, pool} :
         Len(p.logs) <= 16

(* The thread-pool log holds 16 entries.                                   *)
C7_Witness == Len(pool.logs) = PoolLogKeep + 1

(* ---------------------------------- C8 --------------------------------- *)

(* C8: a reset step leaves no interval of its demo live, a start step      *)
(* leaves only the interval it creates live, and a setTimeout callback of  *)
(* a cancelled run that fires after the reset, also after a later start,   *)
(* changes no tracked field.                                               *)
C8_CancelledRunHasNoEffect ==
    [][ /\ Deadlock_reset => DOMAIN deadlock'.timers = {}
        /\ Memory_reset => DOMAIN memord'.timers = {}
        /\ Race_resetAll =>
             (DOMAIN race'.unsafeTimers = {} /\ DOMAIN race'.atomicTimers = {})
        /\ Locks_resetLockDemo => DOMAIN locks'.lockTimers = {}
        /\ Locks_resetCASDemo => DOMAIN locks'.casTimers = {}
        /\ Async_reset => DOMAIN async'.timers = {}
        /\ Starvation_reset => DOMAIN starv'.timers = {}
        /\ Semaphore_reset => DOMAIN sem'.timers = {}
        /\ Pool_reset => DOMAIN pool'.timers = {}
        /\ Prodcons_reset => DOMAIN prodcons'.timers = {}
        /\ Rw_reset => DOMAIN rw'.timers = {}
        /\ Deadlock_runDeadlockScenario =>
             DOMAIN deadlock'.timers = {deadlock'.intervalRef}
        /\ (Memory_runBrokenScenario \/ Memory_runFixedScenario) =>
             DOMAIN memord'.timers = {memord'.intervalRef}
        /\ Race_runBoth =>
             /\ DOMAIN race'.unsafeTimers = {race'.unsafeInterval}
             /\ DOMAIN race'.atomicTimers = {race'.atomicInterval}
        /\ Locks_startLockDemo => DOMAIN locks'.lockTimers = {locks'.lockInterval}
        /\ Locks_startCASDemo => DOMAIN locks'.casTimers = {locks'.casInterval}
        /\ Async_runDemo => DOMAIN async'.timers = {async'.intervalRef}
        /\ Starvation_runSimulation => DOMAIN starv'.timers = {starv'.intervalRef}
        /\ Semaphore_runSimulation => DOMAIN sem'.timers = {sem'.intervalRef}
        /\ Pool_runSimulation => DOMAIN pool'.timers = {pool'.intervalRef}
        /\ Prodcons_runSimulation => DOMAIN prodcons'.timers = {prodcons'.intervalRef}
        /\ Rw_runSimulation => DOMAIN rw'.timers = {rw'.intervalRef}
        /\ \A t \in prodcons.timeouts :
             (/\ page = "producer-consumer"
              /\ t.cancelled
              /\ Prodcons_isNext(prodcons, t.due)
              /\ prodcons' = Prodcons_timeoutState(prodcons, t))
               => Fields(prodcons') = Fields(prodcons) ]_vars

(* A producer-consumer run was reset while a setTimeout callback of one of *)
(* its ticks was pending, and a later run has been started: the callback   *)
(* is still to fire.                                                       *)
C8_Witness ==
    /\ prodcons.isRunning
    /\ \E t \in prodcons.timeouts : t.cancelled /\ ~t.ifBlocked

(* ---------------------------------- C9 --------------------------------- *)

(* C9 as stated: in the reader-writer demo activeWriter is null or         *)
(* activeReaders is empty, and no step replaces an active writer by        *)
(* another writer.                                                         *)
C9_ReadersXorWriter ==
    /\ [](rw.activeWriter = Rw_noWriter \/ Len(rw.activeReaders) = 0)
    /\ [][ (rw.activeWriter # Rw_noWriter /\ (Rw_tick \/ Rw_addReader \/ Rw_addWriter))
             => rw'.activeWriter \in {rw.activeWriter, Rw_noWriter} ]_vars

(* ---------------------------------- C10 -------------------------------- *)

(* C10 as stated: in the semaphore demo the number of active requests      *)
(* never exceeds maxPermits.                                               *)
C10_ActiveWithinPermits == Len(sem.activeRequests) <= sem.maxPermits

(* ---------------------------------- C11 -------------------------------- *)

(* C11 as stated: in the semaphore demo availablePermits stays within      *)
(* 0..maxPermits and equals maxPermits minus the number of active          *)
(* requests.                                                               *)
C11_PermitsConserved ==
    /\ 0 <= sem.availablePermits
    /\ sem.availablePermits <= sem.maxPermits
    /\ sem.availablePermits = sem.maxPermits - Len(sem.activeRequests)

(* ---------------------------------- C12 -------------------------------- *)

(* the outcome of the spawnRequest call of a step: its log entry is the    *)
(* last one the step writes                                                *)
Semaphore_spawned == sem'.requestCounter = sem.requestCounter + 1

Semaphore_spawnOutcome == sem'.logs[Len(sem'.logs)]

(* C12 as stated: a spawned request acquires a permit only if one is       *)
(* available at that moment (the counter it decrements was positive), is   *)
(* queued only if none is available and fewer than 10 requests wait, and   *)
(* is rejected otherwise, which increments rejectedCount and changes       *)
(* neither the permits nor the queues; the waiting queue never holds more  *)
(* than 10 requests.                                                       *)
C12_SpawnAcquiresOnlyIfAvailable ==
    /\ [](Len(sem.waitingRequests) <= Semaphore_queueLimit)
    /\ [][ ((Semaphore_tick \/ Semaphore_addRequest) /\ Semaphore_spawned) =>
             /\ Semaphore_spawnOutcome = "acquired" => sem'.availablePermits >= 0
             /\ Semaphore_spawnOutcome = "info" =>
                  /\ sem'.availablePermits <= 0
                  /\ Len(sem'.waitingRequests) <= Semaphore_queueLimit
             /\ Semaphore_spawnOutcome = "rejected" =>
                  /\ sem'.availablePermits <= 0
                  /\ sem'.rejectedCount = sem.rejectedCount + 1
                  /\ Semaphore_addRequest =>
                       /\ sem'.availablePermits = sem.availablePermits
                       /\ sem'.activeRequests = sem.activeRequests
                       /\ sem'.waitingRequests = sem.waitingRequests ]_vars

(* ---------------------------------- C13 -------------------------------- *)

Pool_processing ==
    {i \in 1..Len(pool.taskQueue) : pool.taskQueue[i].status = "processing"}

Pool_busy ==
    {w \in 1..Len(pool.workers) : pool.workers[w].status = "busy"}

(* C13: in the thread-pool demo at most workerCount tasks are processing,  *)
(* every busy worker's currentTask is a processing task of the queue that  *)
(* is assigned to that worker, and every processing task is the            *)
(* currentTask of exactly one busy worker.                                 *)
C13_BoundedByPool ==
    /\ Cardinality(Pool_processing) <= pool.workerCount
    /\ \A w \in Pool_busy :
         \E i \in Pool_processing :
           /\ pool.taskQueue[i].id = pool.workers[w].currentTask
           /\ pool.taskQueue[i].assignedTo = pool.workers[w].id
    /\ \A i \in Pool_processing :
         Cardinality({w \in Pool_busy :
                        pool.workers[w].currentTask = pool.taskQueue[i].id}) = 1

(* Every worker is busy, tasks are still queued behind them and a task has *)
(* already been completed.                                                 *)
C13_Witness ==
    /\ Cardinality(Pool_processing) = pool.workerCount
    /\ Cardinality(Pool_busy) = pool.workerCount
    /\ \E i \in 1..Len(pool.taskQueue) : pool.taskQueue[i].status = "queued"
    /\ pool.totalProcessed > 0

(* ---------------------------------- C14 -------------------------------- *)

(* the number of items in the buffer once the producer action of a tick    *)
(* drawn for producerId (0: none) has run                                  *)
Prodcons_lengthAfterProducer(producerId) ==
    IF producerId # 0 /\ Len(prodcons.queue) < BUFFER_SIZE
    THEN Len(prodcons.queue) + 1
    ELSE Len(prodcons.queue)

(* C14: in the producer-consumer demo the queue holds 0..BUFFER_SIZE       *)
(* items; on an unpaused tick the producer drawn becomes blocked exactly   *)
(* when the buffer holds BUFFER_SIZE items at that moment and the consumer *)
(* drawn exactly when it holds none, and a blocked action adds or removes  *)
(* no item.                                                                *)
C14_BoundedBuffer ==
    /\ [](/\ Len(prodcons.queue) \in 0..BUFFER_SIZE
          /\ \A h \in DOMAIN prodcons.timers :
               prodcons.timers[h].localQueue = prodcons.queue)
    /\ [][ \A h \in DOMAIN prodcons.timers, producerId \in 0..2, consumerId \in 0..2 :
             (/\ Prodcons_tick
              /\ ~prodcons.pauseRef
              /\ prodcons' = Prodcons_tickState(prodcons, h, producerId, consumerId))
             =>
             LET full == Len(prodcons.queue) = BUFFER_SIZE
                 mid == Prodcons_lengthAfterProducer(producerId)
                 empty == mid = 0
             IN /\ producerId # 0 =>
                     /\ prodcons'.producers[producerId].status = "blocked" <=> full
                     /\ prodcons'.producers[producerId].status = "working" <=> ~full
                     /\ prodcons'.produced = prodcons.produced + (IF full THEN 0 ELSE 1)
                     /\ prodcons'.itemCounter = prodcons.itemCounter + (IF full THEN 0 ELSE 1)
                /\ consumerId # 0 =>
                     /\ prodcons'.consumers[consumerId].status = "blocked" <=> empty
                     /\ prodcons'.consumers[consumerId].status = "working" <=> ~empty
                     /\ prodcons'.consumed = prodcons.consumed + (IF empty THEN 0 ELSE 1)
                /\ Len(prodcons'.queue) =
                     mid - (IF consumerId # 0 /\ ~empty THEN 1 ELSE 0) ]_vars

(* The buffer is full and a producer has just been blocked on it, after    *)
(* items were consumed earlier in the run.                                 *)
C14_Witness ==
    /\ Len(prodcons.queue) = BUFFER_SIZE
    /\ prodcons.consumed > 0
    /\ \E i \in 1..Len(prodcons.producers) : prodcons.producers[i].status = "blocked"
    /\ \E t \in prodcons.timeouts :
         t.role = "producer" /\ t.ifBlocked /\ ~t.cancelled /\ t.due = Prodcons_blockedDelay

(* ---------------------------------- C15 -------------------------------- *)
(* Executions without end of the starvation demo.  tick, localTick,        *)
(* waitTime and executionTime grow without bound and the log records the   *)
(* whole history; here the counters stop at a cap and every log entry is   *)
(* the same string.  Of these the code reads only waitTime: it tests       *)
(* waitTime > 20, and the fair comparator uses the sign of                 *)
(* priorityDiff - floor((b.waitTime - a.waitTime) / 10).  A tick is taken  *)
(* only where the capped values decide both as the true values do, so      *)
(* every behaviour of this specification is one of the code.               *)

Starvation_counterCap == 21

Starvation_executionCap == 1

Starvation_capThread(t) ==
    [t EXCEPT !.waitTime = Min(@, Starvation_counterCap),
              !.executionTime = Min(@, Starvation_executionCap)]

Starvation_saturate(s) ==
    [s EXCEPT !.tick = Min(@, Starvation_counterCap),
              !.timers = [h \in DOMAIN s.timers |->
                            [s.timers[h] EXCEPT !.localTick = Min(@, Starvation_counterCap)]],
              !.threads = [i \in 1..Len(s.threads) |-> Starvation_capThread(s.threads[i])],
              !.currentThread = IF s.lockHolder # NoThread
                                THEN Starvation_capThread(@) ELSE @,
              !.logs = [i \in 1..Len(s.logs) |-> "entry"]]

(* whether the capped wait times of the aged threads order every pair of   *)
(* threads that are not running as their true wait times do: both are      *)
(* below the cap; or both have waited since the run began (their true wait *)
(* times are equal); or one is beyond the cap and the wait bonus it gives   *)
(* the other already outweighs their priority difference                   *)
Starvation_exact(aged) ==
    LET known(i) == aged[i].waitTime <= Starvation_counterCap
        decided(i, j) ==
            Floor(Starvation_counterCap + 1 - aged[i].waitTime, Starvation_waitBonusUnit)
              > priorityOrder(aged[i].priority) - priorityOrder(aged[j].priority)
    IN \A i, j \in Starvation_waiting(aged) :
         \/ i = j
         \/ known(i) /\ known(j)
         \/ /\ ~known(i) /\ ~known(j)
            /\ aged[i].executionTime = 0 /\ aged[j].executionTime = 0
         \/ known(i) /\ ~known(j) /\ decided(i, j)
         \/ known(j) /\ ~known(i) /\ decided(j, i)

(* the interval callback, unpaused, with the counters capped               *)
Starvation_liveTick ==
    /\ page = "starvation"
    /\ \E h \in DOMAIN starv.timers :
         LET aged == [i \in 1..Len(starv.threads) |-> Starvation_age(starv.threads[i])]
         IN /\ Starvation_exact(aged)
            /\ \E release \in BOOLEAN :
                 \E selected \in Starvation_selected(starv.timers[h].scenario, aged) :
                   starv' = Starvation_saturate(
                              Starvation_tickState(starv, h, selected, release))
    /\ UNCHANGED others_starv

(* a run that is never paused or reset                                     *)
StarvationLiveNext ==
    \/ Starvation_setScenario
    \/ Starvation_runSimulation
    \/ Starvation_liveTick

StarvationLiveSpec ==
    Init /\ [][StarvationLiveNext]_vars /\ WF_vars(Starvation_liveTick)

Starvation_fairRun ==
    /\ page = "starvation"
    /\ starv.isRunning
    /\ \A h \in DOMAIN starv.timers : starv.timers[h].scenario = "fair"

Starvation_isRunning(i) ==
    /\ Starvation_fairRun
    /\ starv.threads[i].status = "running"

Starvation_isNotRunning(i) ==
    /\ Starvation_fairRun
    /\ starv.threads[i].status # "running"

(* C15 as stated: in fair mode, in every execution in which ticks keep     *)
(* firing and every running thread is eventually released (no thread      *)
(* runs for ever), every thread that is not running eventually acquires    *)
(* the lock.                                                               *)
C15_FairNoStarvation ==
    ( /\ []<><<Starvation_liveTick>>_vars
      /\ \A j \in 1..Len(Starvation_initThreads) :
           []<>(~Starvation_isRunning(j)) )
    => \A i \in 1..Len(Starvation_initThreads) :
           ~<>[]Starvation_isNotRunning(i)

(* ---------------------------------- C16 -------------------------------- *)

Starvation_unfairRun ==
    \A h \in DOMAIN starv.timers : starv.timers[h].scenario = "unfair"

(* thread i is not running before the step and running after it           *)
Starvation_acquires(i) ==
    starv.threads[i].status # "running" /\ starv'.threads[i].status = "running"

(* thread i comes before thread j in the unfair order: higher priority, or *)
(* the same priority and earlier in the list                               *)
Starvation_before(i, j) ==
    \/ priorityOrder(starv.threads[i].priority) < priorityOrder(starv.threads[j].priority)
    \/ /\ priorityOrder(starv.threads[i].priority) = priorityOrder(starv.threads[j].priority)
       /\ i <= j

(* C16: in unfair mode the thread granted the lock on a tick is the one of *)
(* highest priority (ties broken by list order) among the threads that are *)
(* not running at the start of the tick, so no thread acquires the lock    *)
(* while a thread of strictly higher priority is waiting or starving.      *)
C16_UnfairPicksHighestPriority ==
    [][ (Starvation_tick /\ Starvation_unfairRun /\ ~starv.pauseRef) =>
          \A i \in 1..Len(starv.threads) :
            Starvation_acquires(i) <=>
              /\ starv.threads[i].status # "running"
              /\ \A j \in 1..Len(starv.threads) :
                   starv.threads[j].status # "running" => Starvation_before(i, j) ]_vars

(* An unfair run in which a low-priority thread holds the lock, granted    *)
(* while the threads of higher priority were all running.                  *)
C16_Witness ==
    /\ page = "starvation"
    /\ starv.isRunning
    /\ Starvation_unfairRun
    /\ starv.threads[4].status = "running"
    /\ starv.threads[4].executionTime = 1
    /\ starv.threads[5].status = "waiting"

(* ---------------------------------- C17 -------------------------------- *)

(* C17 as stated: in the reader-writer demo no waiting reader is promoted  *)
(* on a tick at which a writer is active or a writer waits: every reader   *)
(* waiting before such a tick is still waiting, in its place, after it.    *)
C17_WritersHavePriority ==
    [][ (Rw_tick /\ (rw.activeWriter # Rw_noWriter \/ Len(rw.waitingWriters) > 0)) =>
          /\ Len(rw'.waitingReaders) >= Len(rw.waitingReaders)
          /\ SubSeq(rw'.waitingReaders, 1, Len(rw.waitingReaders)) = rw.waitingReaders
      ]_vars

(* ---------------------------------- C18 -------------------------------- *)
(* Executions without end of the reader-writer demo.  threadCounter (and   *)
(* with it the thread ids), completedReads, completedWrites and            *)
(* dataVersion grow without bound, and so can the lists; here the counters *)
(* stop at Rw_counterCap and a thread is added only while fewer than       *)
(* MaxRwPresent threads are active or waiting.  The code reads the         *)
(* counters only to display them, so every behaviour of this               *)
(* specification is one of the code.  Threads whose id is below the cap    *)
(* keep their identity.                                                    *)

Rw_counterCap == 4

MaxRwPresent == 3

Rw_capThread(t) == [t EXCEPT !.id = Min(@, Rw_counterCap)]

Rw_capThreads(list) == [i \in 1..Len(list) |-> Rw_capThread(list[i])]

Rw_saturate(r) ==
    [r EXCEPT !.threadCounter = Min(@, Rw_counterCap),
              !.completedReads = Min(@, Rw_counterCap),
              !.completedWrites = Min(@, Rw_counterCap),
              !.dataVersion = Min(@, Rw_counterCap),
              !.sharedData = Min(@, Rw_counterCap),
              !.activeReaders = Rw_capThreads(@),
              !.waitingReaders = Rw_capThreads(@),
              !.waitingWriters = Rw_capThreads(@),
              !.activeWriter = Rw_capThread(@)]

Rw_present(r) ==
    Len(r.activeReaders) + Len(r.waitingReaders) + Len(r.waitingWriters)
      + (IF r.activeWriter # Rw_noWriter THEN 1 ELSE 0)

(* the interval callback, unpaused, with the counters capped               *)
Rw_liveTick ==
    /\ page = "reader-writer"
    /\ \E h \in DOMAIN rw.timers :
         \E completed \in SUBSET (1..Len(rw.activeReaders)) :
           \E writerDone \in BOOLEAN :
             \E add \in {"none", "reader", "writer"} :
               /\ add # "none" => Rw_present(rw) < MaxRwPresent
               /\ rw' = Rw_saturate(Rw_tickState(rw, h, completed, writerDone, add))
    /\ UNCHANGED others_rw

Rw_liveAddReader ==
    /\ page = "reader-writer"
    /\ rw.isRunning /\ ~rw.isPaused
    /\ Rw_present(rw) < MaxRwPresent
    /\ rw' = Rw_saturate(Rw_addReaderState(rw, Rw_render(rw)))
    /\ UNCHANGED others_rw

Rw_liveAddWriter ==
    /\ page = "reader-writer"
    /\ rw.isRunning /\ ~rw.isPaused
    /\ Rw_present(rw) < MaxRwPresent
    /\ rw' = Rw_saturate(Rw_addWriterState(rw, Rw_render(rw)))
    /\ UNCHANGED others_rw

(* a run that is never paused or reset                                     *)
RwLiveNext ==
    \/ Rw_runSimulation
    \/ Rw_liveTick
    \/ Rw_liveAddReader
    \/ Rw_liveAddWriter

RwLiveSpec ==
    Init /\ [][RwLiveNext]_vars /\ WF_vars(Rw_liveTick)

Rw_isWaitingWriter(id) ==
    \E i \in 1..Len(rw.waitingWriters) : rw.waitingWriters[i].id = id

(* C18 as stated: in every execution in which ticks keep firing, unpaused  *)
(* and without a reset, no writer stays in the waiting queue for ever:     *)
(* each waiting writer eventually becomes the active writer (a writer      *)
(* leaves the queue only by being promoted).                               *)
C18_WaitingWriterNotStarved ==
    []<><<Rw_liveTick>>_vars
    => \A id \in 1..(Rw_counterCap - 1) : ~<>[]Rw_isWaitingWriter(id)

(* ---------------------------------- C19 -------------------------------- *)

(* the state in which a run of the lock demo stops                         *)
C19_Terminal(d) ==
    /\ d.completedThreads = Locks_initialThreads
    /\ d.waiting = <<>>
    /\ d.currentHolder = NoThread
    /\ ~d.active
    /\ d.phase = "idle"

(* C19: in the lock demo the threads enter the critical section one at a   *)
(* time in the order 1, 2, 3, 4, each once and only after the thread       *)
(* before it has released, and the run stops by itself, on its twelfth     *)
(* tick, with completedThreads = [1,2,3,4], an empty queue, no holder,     *)
(* active = false, phase = "idle" and the timer cleared.                   *)
C19_LockInQueueOrder ==
    /\ [](LET d == locks.lockDemo IN
          /\ d.completedThreads
               = SubSeq(Locks_initialThreads, 1, Len(d.completedThreads))
          /\ d.active =>
               /\ d.currentHolder \in {Len(d.completedThreads),
                                       Len(d.completedThreads) + 1}
               /\ d.currentHolder \in 1..Len(Locks_initialThreads)
               /\ d.waiting = SubSeq(Locks_initialThreads, d.currentHolder + 1,
                                     Len(Locks_initialThreads))
          /\ (~d.active /\ d # Locks_lockDemo0) => C19_Terminal(d)
          /\ DOMAIN locks.lockTimers # {} <=> d.active
          /\ \A h \in DOMAIN locks.lockTimers :
               /\ locks.lockTimers[h].step <= 3 * Len(Locks_initialThreads) - 1
               /\ Len(d.completedThreads) = (locks.lockTimers[h].step + 1) \div 3)
    /\ [][ Locks_lockTick =>
             LET d == locks.lockDemo
                 e == locks'.lockDemo
             IN /\ (e.currentHolder # d.currentHolder /\ e.currentHolder # NoThread) =>
                     /\ e.currentHolder = d.currentHolder + 1
                     /\ Len(d.completedThreads) = d.currentHolder
                /\ Len(d.completedThreads) = Len(Locks_initialThreads) =>
                     /\ C19_Terminal(e)
                     /\ DOMAIN locks'.lockTimers = {} ]_vars

(* A run of the lock demo has stopped by itself.                           *)
C19_Witness ==
    /\ C19_Terminal(locks.lockDemo)
    /\ locks.lockInterval # NoHandle
    /\ DOMAIN locks.lockTimers = {}
    /\ Len(locks.lockDemo.executionLog) = 3 * Len(Locks_initialThreads) + 1

(* ---------------------------------- C20 -------------------------------- *)

(* the indexes of the recorded attempts of thread t, and the successful    *)
(* ones among them                                                         *)
Locks_attemptsOf(t) ==
    {i \in 1..Len(locks.casDemo.attempts) : locks.casDemo.attempts[i].threadId = t}

Locks_successesOf(t) ==
    {i \in Locks_attemptsOf(t) : locks.casDemo.attempts[i].success}

(* a run of the CAS demo has stopped by itself                             *)
Locks_casStopped ==
    /\ ~locks.casDemo.isRunning
    /\ Len(locks.casDemo.attempts) > 0

(* C20 as stated: in the CAS demo the recorded attempts of each of the     *)
(* threads 1, 2 and 3 are failed attempts followed by one successful       *)
(* attempt: no thread succeeds twice or tries again after succeeding, and  *)
(* when the demo has stopped every thread has succeeded exactly once.      *)
C20_RetryUntilSuccess ==
    \A t \in 1..3 :
      /\ Cardinality(Locks_successesOf(t)) <= 1
      /\ \A i \in Locks_successesOf(t) : \A j \in Locks_attemptsOf(t) : j <= i
      /\ Locks_casStopped => Cardinality(Locks_successesOf(t)) = 1

(* ---------------------------------- C21 -------------------------------- *)

(* the attempt a tick of the CAS demo records                              *)
Locks_recordsAttempt ==
    /\ Locks_casTick
    /\ Len(locks'.casDemo.attempts) = Len(locks.casDemo.attempts) + 1

Locks_recorded == locks'.casDemo.attempts[Len(locks'.casDemo.attempts)]

(* C21 as stated: in the CAS demo an attempt is recorded as successful     *)
(* exactly when its expected value equals casDemo.value at the time of the *)
(* attempt; a successful attempt sets the counter to expected + 1, a       *)
(* failed one leaves it unchanged, and the counter is always 100 plus the  *)
(* number of successful attempts.                                          *)
C21_SuccessIffExpectedIsCounter ==
    /\ [](locks.casDemo.value
            = Locks_casDemo0.value
                + Cardinality({i \in 1..Len(locks.casDemo.attempts) :
                                 locks.casDemo.attempts[i].success}))
    /\ [][ Locks_recordsAttempt =>
             /\ Locks_recorded.success <=>
                  Locks_recorded.expected = locks.casDemo.value
             /\ Locks_recorded.success =>
                  locks'.casDemo.value = Locks_recorded.expected + 1
             /\ ~Locks_recorded.success =>
                  locks'.casDemo.value = locks.casDemo.value ]_vars

(* ---------------------------------- C22 -------------------------------- *)

Race_unsafeWrites(r) ==
    Cardinality({i \in 1..Len(r.unsafeLog) : r.unsafeLog[i].action = "write"})

(* every read of the unsafe script sees 0, and each write comes after the  *)
(* reads of all three threads                                              *)
Race_readsBeforeWrites(r) ==
    \A i \in 1..Len(r.unsafeLog) :
        /\ r.unsafeLog[i].action = "read" => r.unsafeLog[i].value = 0
        /\ r.unsafeLog[i].action = "write" =>
             \A t \in 1..3 : \E j \in 1..(i - 1) :
                 /\ r.unsafeLog[j].action = "read"
                 /\ r.unsafeLog[j].threadId = t
                 /\ r.unsafeLog[j].value = 0

Race_unsafeRunEnds == Race_unsafeTick /\ race.unsafeRunning /\ ~race'.unsafeRunning

(* C22: in the unsafe script all three threads read 0 before any thread    *)
(* writes, unsafeCounter + lostUpdates always equals the number of write   *)
(* steps executed so far, and the tick that ends the run leaves            *)
(* unsafeCounter = 1, lostUpdates = 2, every thread in step "done" and no  *)
(* live interval.                                                          *)
C22_UnsafeScript ==
    /\ [](/\ Race_readsBeforeWrites(race)
          /\ race.unsafeCounter + race.lostUpdates = Race_unsafeWrites(race))
    /\ [][ Race_unsafeRunEnds =>
             /\ race'.unsafeCounter = 1
             /\ race'.lostUpdates = 2
             /\ \A i \in 1..3 : race'.unsafeThreads[i].step = "done"
             /\ race'.unsafeTimers = NoTimers ]_vars

C22_Witness ==
    /\ page = "race-condition"
    /\ ~race.unsafeRunning
    /\ Race_unsafeWrites(race) = 3
    /\ race.unsafeCounter = 1 /\ race.lostUpdates = 2
    /\ \A i \in 1..3 : race.unsafeThreads[i].step = "done"
    /\ race.unsafeTimers = NoTimers

(* ---------------------------------- C23 -------------------------------- *)

Race_atomicIncrements(r) == Len(r.atomicLog)

Race_atomicIncrementOf(t) ==
    /\ Race_atomicTick
    /\ Len(race'.atomicLog) = Len(race.atomicLog) + 1
    /\ race'.atomicLog[Len(race'.atomicLog)].threadId = t

Race_atomicRunEnds == Race_atomicTick /\ race.atomicRunning /\ ~race'.atomicRunning

(* C23 as stated: in the atomic script atomicCounter always equals the     *)
(* number of increments executed so far, the result shown for a thread is  *)
(* the counter value right after its own increment (1, 2, 3 for threads    *)
(* 1, 2, 3), and the tick that ends the run leaves atomicCounter = 3 and   *)
(* every thread in step "done".                                            *)
C23_AtomicScript ==
    /\ [](race.atomicCounter = Race_atomicIncrements(race))
    /\ [][ /\ \A t \in 1..3 : Race_atomicIncrementOf(t) =>
                /\ race'.atomicThreads[t].localValue = race'.atomicCounter
                /\ race'.atomicThreads[t].localValue = t
           /\ Race_atomicRunEnds =>
                /\ race'.atomicCounter = 3
                /\ \A i \in 1..3 : race'.atomicThreads[i].step = "done" ]_vars

(* ---------------------------------- C24 -------------------------------- *)

(* C24: while a run is active the configuration it was started with does   *)
(* not change: a step taken while isRunning, other than reset(), keeps the *)
(* starvation scenario, the thread-pool workerCount and the semaphore      *)
(* maxPermits, and a running thread pool has workerCount workers.          *)
C24_ConfigurationFixedWhileRunning ==
    /\ [](pool.isRunning => Len(pool.workers) = pool.workerCount)
    /\ [][ /\ (starv.isRunning /\ ~Starvation_reset)
                => starv'.scenario = starv.scenario
           /\ (pool.isRunning /\ ~Pool_reset)
                => /\ pool'.workerCount = pool.workerCount
                   /\ Len(pool'.workers) = Len(pool.workers)
           /\ (sem.isRunning /\ ~Semaphore_reset)
                => sem'.maxPermits = sem.maxPermits ]_vars

(* A starvation run under the fair scenario, chosen before the start, has  *)
(* ticked.                                                                 *)
C24_Witness ==
    /\ page = "starvation"
    /\ starv.isRunning
    /\ starv.scenario = "fair"
    /\ starv.tick > 0

C24_WitnessPool ==
    /\ page = "thread-pool"
    /\ pool.isRunning
    /\ pool.workerCount = 2
    /\ pool.completedTasks # <<>>

C24_WitnessSemaphore ==
    /\ page = "semaphore"
    /\ sem.isRunning
    /\ sem.maxPermits = 4
    /\ sem.completedCount > 0

====
